---------------------------- MODULE Spec2Model ----------------------------
(***************************************************************************)
(* A model of the urban irradiance ray tracer of ml-for-bem/umi/trace.py:  *)
(* the Tracer pipeline (scene builder, height grid, sensor layout, ray     *)
(* tracer, accumulator) and the Sky resampler.                             *)
(*                                                                         *)
(* Floats are fixed-point: lengths and heights in millimetres (Scale per   *)
(* metre), unit vectors, slopes, sines, cosines and tangents in            *)
(* thousandths, angles in units of 15 degrees (24 units = 2*pi), rounded   *)
(* to nearest.  The footprints the model enumerates have edges whose       *)
(* directions are multiples of 15 degrees, and the skies have azimuth      *)
(* counts whose half increment is a multiple of 15 degrees.                *)
(***************************************************************************)
EXTENDS Integers, Sequences, FiniteSets, TLC

VARIABLES
    cfg,          \* the arguments of Tracer(...) and the build (immutable)
    sky,          \* the Sky object
    gdf,          \* the caller's GeoDataFrame (Tracer keeps a reference)
    pc,           \* position of the pipeline
    err,          \* the error that aborted the pipeline ("" when none)
    dims,         \* Tracer.width, Tracer.length, Tracer.depth
    buildings,    \* Tracer.buildings
    edges,        \* Tracer.edges
    nodes,        \* Tracer.nodes: active cell -> height
    rasterRuns,   \* completed runs of add_edges_to_tree
    xyz_views,    \* Tracer.xyz_views: the set bits (sensor, az, el)
    rad,          \* XYZSensor.rad, non-zero entries
    ray,          \* the loop state of the ray being walked
    time_series,  \* Tracer.xyz_sensor_timesteps
    results,      \* Tracer.results_df
    par           \* the kernel running in parallel: thread -> steps done

vars == <<cfg, sky, gdf, pc, err, dims, buildings, edges, nodes, rasterRuns,
          xyz_views, rad, ray, time_series, results, par>>

----------------------------------------------------------------------------
(* Fixed-point arithmetic *)

\* millimetres per metre, thousandths per unit
Scale == 1000

Abs(x) == IF x < 0 THEN -x ELSE x

Min2(a, b) == IF a < b THEN a ELSE b

Max2(a, b) == IF a > b THEN a ELSE b

\* a / b rounded to nearest, b > 0
RDiv(a, b) == (2 * a + b) \div (2 * b)

\* a * b / Scale, the product of two fixed-point numbers
FMul(a, b) == RDiv(a * b, Scale)

\* floor and ceil of a length in millimetres, as whole metres
FloorM(x) == x \div Scale

CeilM(x) == -((-x) \div Scale)

RECURSIVE IsqrtFrom(_, _)
IsqrtFrom(n, r) ==
    LET nxt == (r + n \div r) \div 2
    IN  IF nxt >= r THEN r ELSE IsqrtFrom(n, nxt)

\* floor of the square root
Isqrt(n) == IF n < 2 THEN n ELSE IsqrtFrom(n, n)

\* np.linalg.norm of a vector of millimetres, in millimetres
Norm(dx, dy) ==
    LET fl == Isqrt(dx * dx + dy * dy)
    IN  IF (dx * dx + dy * dy) - fl * fl > fl THEN fl + 1 ELSE fl

RECURSIVE Log2CeilFrom(_, _, _)
Log2CeilFrom(n, k, p) == IF p >= n THEN k ELSE Log2CeilFrom(n, k + 1, 2 * p)

\* np.ceil(np.log2(n)) for n >= 1
Log2Ceil(n) == Log2CeilFrom(n, 0, 1)

RECURSIVE SumTo(_, _)
SumTo(f, n) == IF n = 0 THEN 0 ELSE f[n] + SumTo(f, n - 1)

\* the sum of a sequence of numbers
SeqSum(s) == SumTo(s, Len(s))

\* element i of a zero-indexed array held as a sequence
At(s, i) == s[i + 1]

----------------------------------------------------------------------------
(* Angles: unit 15 degrees *)

HalfPi == 6

QuarterPi == 3

Pi == 12

TwoPi == 24

\* cos(u * 15 degrees) in thousandths, u = 0..23
CosTab ==
    << 1000,  966,  866,  707,  500,  259,
          0, -259, -500, -707, -866, -966,
      -1000, -966, -866, -707, -500, -259,
          0,  259,  500,  707,  866,  966 >>

Cos(u) == CosTab[(u % TwoPi) + 1]

Sin(u) == Cos(u - HalfPi)

\* atan2(y, x) of a unit vector in thousandths, in (-pi, pi]
Atan2(y, x) ==
    CHOOSE u \in (1 - Pi)..Pi :
        \A v \in (1 - Pi)..Pi : x * Cos(u) + y * Sin(u) >= x * Cos(v) + y * Sin(v)


----------------------------------------------------------------------------
(* The inputs: GIS tables, skies, configurations *)

\* hours of the sky's time series (8760 in the program)
NHours == 2

\* max_ray_length of the short-ray configurations, metres
MaxRayShort == 3

\* max_ray_length of the other configurations, metres
MaxRayLong == 30

\* len(gdf) must stay below this
BuildingLimit == 65536

\* the quadtree depth must stay below this
DepthLimit == 16

\* the ray count must stay below RayLimitRoot * RayLimitRoot = 2^32
RayLimitRoot == 65536

Translate(poly, dx, dy) ==
    [i \in 1..Len(poly) |-> <<poly[i][1] + dx, poly[i][2] + dy>>]

\* footprints in the caller's coordinates, millimetres, closing vertex dropped
BoxCW == <<<<2000, 1000>>, <<2000, 5000>>, <<6000, 5000>>, <<6000, 1000>>>>

BoxCCW == <<<<2000, 1000>>, <<6000, 1000>>, <<6000, 5000>>, <<2000, 5000>>>>

DiamondCW == <<<<0, 3000>>, <<3000, 6000>>, <<6000, 3000>>, <<3000, 0>>>>

\* a 4 m square turned by 30 degrees, clockwise ring
TurnedCW == <<<<0, 0>>, <<-2000, 3464>>, <<1464, 5464>>, <<3464, 2000>>>>

\* the same square, counter-clockwise ring
TurnedCCW == <<<<0, 0>>, <<3464, 2000>>, <<1464, 5464>>, <<-2000, 3464>>>>

\* the turned square moved 7 m along the normal of its third edge
TurnedNeighbour == Translate(TurnedCW, 6062, 3500)

\* the same footprint shifted by its own width: the two share a wall
TurnedAbutting == Translate(TurnedCW, 3464, 2000)

\* a footprint 33 km long
LongBox == <<<<0, 0>>, <<0, 4000>>, <<33000000, 4000>>, <<33000000, 0>>>>

AllCols == {"height", "id", "archetype", "geometry"}

Gis(polys, heights) ==
    [rows |-> Len(polys), cols |-> AllCols, geom |-> polys, height |-> heights]

\* a table of BuildingLimit rows; its rows are not enumerated
OversizedGis ==
    [rows |-> BuildingLimit, cols |-> AllCols, geom |-> << >>, height |-> << >>]

\* a sliver with one wall long enough for sensors, clockwise ring
Sliver == <<<<3200, 0>>, <<3800, 3100>>, <<4500, 400>>>>

\* a small triangle beside the sliver's long wall, clockwise ring
Wedge == <<<<500, 300>>, <<1100, 1900>>, <<3150, 600>>>>

\* a building of more floors than an 8-bit signed field holds
TowerFloors == 130

\* a building of several floors
BlockFloors == 4

GisTables ==
    [ empty    |-> Gis(<< >>, << >>),
      boxcw    |-> Gis(<<BoxCW>>, <<3000>>),
      boxccw   |-> Gis(<<BoxCCW>>, <<3000>>),
      diamond  |-> Gis(<<DiamondCW>>, <<3000>>),
      turned   |-> Gis(<<TurnedCW>>, <<3000>>),
      turnedccw |-> Gis(<<TurnedCCW>>, <<3000>>),
      flat     |-> Gis(<<TurnedCW>>, <<0>>),
      pair     |-> Gis(<<TurnedCW, TurnedNeighbour>>, <<2000, 6000>>),
      abut     |-> Gis(<<TurnedCW, TurnedAbutting>>, <<6000, 3000>>),
      tower    |-> Gis(<<TurnedCW>>, <<TowerFloors * 3000>>),
      wedge    |-> Gis(<<Sliver, Wedge>>, <<3000, 6000>>),
      block    |-> Gis(<<TurnedCW>>, <<BlockFloors * 3000>>),
      long     |-> Gis(<<LongBox>>, <<3000>>),
      oversized |-> OversizedGis ]

\* Sky.elevation_centers for mfactor 1 and 2: tangent and cosine, thousandths
TanEl1 == <<105, 325, 577, 900, 1376, 2246, 4705>>

CosEl1 == <<995, 951, 866, 743, 588, 407, 208>>

TanEl2 == <<52, 158, 268, 384, 510, 649, 810, 1000, 1235, 1540, 1963, 2605, 3732, 6314>>

CosEl2 == <<999, 988, 966, 934, 891, 839, 777, 707, 629, 545, 454, 358, 259, 156>>

\* Sky.normal_irradiance, by pattern, for sky patch (e, a) at hour t
Irradiance(pattern, e, a, t) ==
    CASE pattern = "zero" -> 0
      [] pattern = "unit" -> 1
      [] OTHER -> (e + 2 * a + t) % 3

\* the Sky a Tracer is given: Sky(mfactor, n_azimuths), converted
TracerSky(mfactor, n_az, pattern) ==
    [ mfactor |-> mfactor, n_azimuths |-> n_az, n_elevations |-> 7 * mfactor,
      pattern |-> pattern, mtx |-> << >>, radiance |-> << >> ]

\* the arguments of Tracer(...), with the defaults of the signature for
\* sensor_inset, sensor_normal_offset, f2f_height and ray_step_size
BaseCfg ==
    [ gis |-> "turned", node_width |-> 1,
      height_col |-> "height", id_col |-> "id", archetype_col |-> "archetype",
      sensor_inset |-> 500, sensor_normal_offset |-> 1500,
      spacing_num |-> 2000, spacing_den |-> 1,
      f2f_height |-> 3000, max_ray_length |-> MaxRayLong * Scale,
      ray_step_size |-> Scale,
      mfactor |-> 1, n_azimuths |-> 4, pattern |-> "mixed",
      nan_cast |-> 0 ]

\* float-to-int conversion of NaN is undefined: the builds give 0 (a
\* saturating conversion) or INT_MIN, which is outside every field
NanCasts == {0, -1}

Configs ==
    \* scenes that construct and trace
    { [BaseCfg EXCEPT !.gis = g] :
        g \in {"turned", "turnedccw", "diamond", "flat", "pair"} }
    \cup { [BaseCfg EXCEPT !.gis = g, !.max_ray_length = MaxRayShort * Scale] :
        g \in {"turnedccw", "abut"} }
    \cup { [BaseCfg EXCEPT !.gis = g, !.nan_cast = n] :
        g \in {"boxcw", "boxccw"}, n \in NanCasts }
    \cup { [BaseCfg EXCEPT !.n_azimuths = 12, !.pattern = p] : p \in {"zero", "unit"} }
    \cup { [BaseCfg EXCEPT !.mfactor = 2, !.pattern = "unit"] }
    \cup { [BaseCfg EXCEPT !.gis = "pair", !.mfactor = 2,
                            !.max_ray_length = MaxRayShort * Scale] }
    \* a tower
    \cup { [BaseCfg EXCEPT !.gis = "tower"] }
    \* max_ray_length half a step short of a multiple of ray_step_size
    \cup { [BaseCfg EXCEPT !.gis = "abut",
                            !.max_ray_length = MaxRayShort * Scale - Scale \div 2] }
    \* one invalid input each
    \cup { [BaseCfg EXCEPT !.gis = g] : g \in {"empty", "long", "oversized"} }
    \cup { [BaseCfg EXCEPT !.node_width = 2] }
    \cup { [BaseCfg EXCEPT !.height_col = "HEIGHT"],
           [BaseCfg EXCEPT !.id_col = "OBJECTID"],
           [BaseCfg EXCEPT !.archetype_col = "BUILTYPE"] }
    \cup { [BaseCfg EXCEPT !.n_azimuths = 3] }
    \cup { [BaseCfg EXCEPT !.spacing_num = 1, !.spacing_den = 100000] }

----------------------------------------------------------------------------
(* Tracer.__init__ *)

RECURSIVE MinOver(_, _, _)
MinOver(polys, k, acc) ==
    \* acc: the smallest coordinate k seen so far, over all vertices
    IF polys = << >> THEN acc
    ELSE LET p == Head(polys)
             m == CHOOSE v \in {p[i][k] : i \in 1..Len(p)} :
                      \A i \in 1..Len(p) : v <= p[i][k]
         IN  MinOver(Tail(polys), k, Min2(acc, m))

RECURSIVE MaxOver(_, _, _)
MaxOver(polys, k, acc) ==
    IF polys = << >> THEN acc
    ELSE LET p == Head(polys)
             m == CHOOSE v \in {p[i][k] : i \in 1..Len(p)} :
                      \A i \in 1..Len(p) : v >= p[i][k]
         IN  MaxOver(Tail(polys), k, Max2(acc, m))

\* gdf.geometry.total_bounds is NaN for a table without rows
BoundsNaN(polys) == polys = << >>

\* gdf.geometry.total_bounds of a table with rows
TotalBounds(polys) ==
    IF BoundsNaN(polys) THEN [x_low |-> 0, y_low |-> 0, x_high |-> 0, y_high |-> 0]
    ELSE [ x_low  |-> MinOver(polys, 1, polys[1][1][1]),
           y_low  |-> MinOver(polys, 2, polys[1][1][2]),
           x_high |-> MaxOver(polys, 1, polys[1][1][1]),
           y_high |-> MaxOver(polys, 2, polys[1][1][2]) ]

\* the geometry relocated by (-x_low + padding, -y_low + padding)
Relocate(polys, padding) ==
    LET b == TotalBounds(polys)
    IN  IF BoundsNaN(polys) THEN polys
        ELSE [i \in 1..Len(polys) |->
                 Translate(polys[i], padding - b.x_low, padding - b.y_low)]

\* self.depth for the relocated geometry (lines 250-266)
Depth(polys, padding, node_width) ==
    LET b == TotalBounds(polys)
        length == b.y_high + padding
        width  == b.x_high + padding
        max_dim == Max2(length, width)
        min_nodes_required == CeilM(-((-max_dim) \div node_width))
    IN  Log2Ceil(min_nodes_required)

\* conversion of a floor count to the ti.int8 field Edge.n_floors
ToInt8(n) == ((n + 128) % 256) - 128

\* np.ceil(height / f2f_height)
NFloors(height, f2f) == -((-height) \div f2f)

\* Edge.slope = ym / xm as a float: finite (thousandths), infinite or NaN
Slope(xm, ym) ==
    IF xm # 0 THEN [kind |-> "fin", val |-> RDiv(ym * Scale, Abs(xm)) * (IF xm < 0 THEN -1 ELSE 1),
                    neg |-> (ym < 0) # (xm < 0)]
    ELSE IF ym # 0 THEN [kind |-> "inf", val |-> 0, neg |-> ym < 0]
    ELSE [kind |-> "nan", val |-> 0, neg |-> FALSE]

\* Edge.orientation: floor((((theta + 2pi) % 2pi) + pi/4) / (pi/2) % 4)
Orientation(normal_theta) ==
    ((((normal_theta + TwoPi) % TwoPi) + QuarterPi) \div HalfPi) % 4

\* sky.azimuthal_aperture, in half units of 15 degrees so that a half
\* increment is whole: 2*pi / n_azimuths
AzimuthInc(n_azimuths) == TwoPi \div n_azimuths

\* the sensor count of an edge of length len (lines 647-650)
SensorCount(len, c) ==
    LET span == (len - 2 * c.sensor_inset) * c.spacing_den
    IN  IF span >= c.spacing_num THEN span \div c.spacing_num + 1 ELSE 0

\* the edges of one polygon of building b (lines 595-636), before the
\* sensor indices are known
PolygonEdges(poly, b, height, c) ==
    [i \in 1..Len(poly) |->
        LET start == poly[i]
            end   == poly[(i % Len(poly)) + 1]
            dx    == end[1] - start[1]
            dy    == end[2] - start[2]
            len   == Norm(dx, dy)
            sx    == RDiv(Abs(dx) * Scale, len) * (IF dx < 0 THEN -1 ELSE 1)
            sy    == RDiv(Abs(dy) * Scale, len) * (IF dy < 0 THEN -1 ELSE 1)
        IN  [ building_id |-> b, start |-> start, end |-> end,
              slopevec |-> <<sx, sy>>,
              normal |-> <<-sy, sx>>,
              height |-> height,
              n_floors |-> ToInt8(NFloors(height, c.f2f_height)),
              sensor_ct |-> SensorCount(len, c) ] ]

RECURSIVE FlatEdges(_, _, _, _)
FlatEdges(polys, heights, b, c) ==
    IF b > Len(polys) THEN << >>
    ELSE PolygonEdges(polys[b], b - 1, heights[b], c)
             \o FlatEdges(polys, heights, b + 1, c)

\* variant: no half increment, the first ray runs along the edge
AzStartAlongEdge(normal_theta, n_azimuths) ==
    normal_theta - HalfPi

\* variant: the fan starts at the normal instead of a quarter turn before it
AzStartAtNormal(normal_theta, n_azimuths) ==
    normal_theta + AzimuthInc(n_azimuths) \div 2

\* the azimuth of an edge's first ray: the fan is centred on the normal
AzStartAngle(normal_theta, n_azimuths) ==
    normal_theta - HalfPi + AzimuthInc(n_azimuths) \div 2

\* update_edge_properties for one edge (lines 687-722)
EdgeProperties(e, n_azimuths) ==
    LET normal_theta == Atan2(e.normal[2], e.normal[1])
    IN  [ slope |-> Slope(e.slopevec[1], e.slopevec[2]),
          normal_theta |-> normal_theta,
          orientation |-> Orientation(normal_theta),
          az_start_angle |-> AzStartAngle(normal_theta, n_azimuths) ]

\* extract_flat_edge_list: the flat edge records with their sensor ranges
\* and computed properties; weight and qualified_length stay zero
ExtractFlatEdgeList(polys, heights, c, n_azimuths) ==
    LET flat == FlatEdges(polys, heights, 1, c)
        ends == [i \in 1..Len(flat) |->
                    SumTo([k \in 1..Len(flat) |-> flat[k].sensor_ct], i)]
    IN  [i \in 1..Len(flat) |->
            LET p == EdgeProperties(flat[i], n_azimuths)
            IN  [ building_id |-> flat[i].building_id,
                  start |-> flat[i].start, end |-> flat[i].end,
                  slopevec |-> flat[i].slopevec, normal |-> flat[i].normal,
                  height |-> flat[i].height, n_floors |-> flat[i].n_floors,
                  sensor_ct |-> flat[i].sensor_ct,
                  sensor_start_ix |-> IF i = 1 THEN 0 ELSE ends[i - 1],
                  sensor_end_ix |-> ends[i],
                  slope |-> p.slope, normal_theta |-> p.normal_theta,
                  orientation |-> p.orientation,
                  az_start_angle |-> p.az_start_angle,
                  weight |-> 0, qualified_length |-> 0 ] ]

\* init_buildings and the edge counts of update_edge_properties
InitBuildings(heights, es) ==
    [b \in 1..Len(heights) |->
        LET ct == Cardinality({i \in 1..Len(es) : es[i].building_id = b - 1})
            before == Cardinality({i \in 1..Len(es) : es[i].building_id < b - 1})
        IN  [ height |-> heights[b], edge_ct |-> ct,
              edge_start_ix |-> before, edge_end_ix |-> before + ct,
              north_weight |-> 0, east_weight |-> 0,
              south_weight |-> 0, west_weight |-> 0,
              qualified_perim_length |-> 0, qualified_edge_weight_sum |-> 0 ] ]

\* variant: no validation at all
NoInitError(c, g, s) == ""

\* the first check of __init__ that fails, in the order of the code, with
\* what __init__ has done to the caller's table by then; "" when none fails
InitError(c, g, s) ==
    IF c.node_width # 1 THEN "node_width"
    ELSE IF ~(g.rows < BuildingLimit) THEN "too_many_buildings"
    ELSE IF c.height_col \notin g.cols THEN "height_col"
    ELSE IF c.id_col \notin g.cols THEN "id_col"
    ELSE IF c.archetype_col \notin g.cols THEN "archetype_col"
    \* int(np.ceil(nan)) raises ValueError (line 261)
    ELSE IF BoundsNaN(g.geom) THEN "nan_to_int"
    ELSE IF ~(Depth(Relocate(g.geom, 5 * c.node_width * Scale),
                    5 * c.node_width * Scale, c.node_width) < DepthLimit) THEN "depth"
    ELSE IF s.n_azimuths % 2 # 0 THEN "n_azimuths_odd"
    ELSE ""

\* the caller's table as __init__ leaves it: N_FLOORS is added and the
\* geometry relocated once the column checks have passed (lines 216-224),
\* ARCHETYPE_ID is added by init_buildings (line 571)
GdfAfterInit(c, g, error) ==
    IF error \in {"node_width", "too_many_buildings", "height_col", "id_col",
                  "archetype_col"}
    THEN g
    ELSE [g EXCEPT !.cols = g.cols \cup {"N_FLOORS"}
                              \cup (IF error = "" THEN {"ARCHETYPE_ID"} ELSE {}),
                   !.geom = Relocate(g.geom, 5 * c.node_width * Scale)]

NoRay == [active |-> FALSE, ix |-> 0, ray_step_ix |-> 0, hit_found |-> 0]

Init ==
    /\ cfg \in Configs
    /\ sky = TracerSky(cfg.mfactor, cfg.n_azimuths, cfg.pattern)
    /\ gdf = GisTables[cfg.gis]
    /\ pc = "new"
    /\ err = ""
    /\ dims = [width |-> 0, length |-> 0, depth |-> 0]
    /\ buildings = << >>
    /\ edges = << >>
    /\ nodes = << >>
    /\ rasterRuns = 0
    /\ xyz_views = {}
    /\ rad = << >>
    /\ ray = NoRay
    /\ time_series = << >>
    /\ results = "none"
    /\ par = << >>

\* Tracer(sky, gdf, ...): the checks, the relocation, init_buildings and
\* extract_flat_edge_list
Construct ==
    /\ pc = "new"
    /\ LET error == InitError(cfg, gdf, sky)
           padding == 5 * cfg.node_width * Scale
           after == GdfAfterInit(cfg, gdf, error)
       IN  /\ gdf' = after
           /\ err' = error
           /\ IF error # ""
              THEN /\ pc' = "error"
                   /\ UNCHANGED <<dims, buildings, edges>>
              ELSE LET b == TotalBounds(after.geom)
                       es == ExtractFlatEdgeList(after.geom, after.height, cfg,
                                                 sky.n_azimuths)
                   IN  /\ pc' = "constructed"
                       /\ dims' = [ width |-> b.x_high + padding,
                                    length |-> b.y_high + padding,
                                    depth |-> Depth(after.geom, padding, cfg.node_width) ]
                       /\ edges' = es
                       /\ buildings' = InitBuildings(after.height, es)
    /\ UNCHANGED <<par, cfg, sky, nodes, rasterRuns, xyz_views, rad, ray,
                   time_series, results>>

----------------------------------------------------------------------------
(* add_edges_to_tree *)

RECURSIVE Pow2(_)
Pow2(n) == IF n = 0 THEN 1 ELSE 2 * Pow2(n - 1)

\* floor(y) of the x-threshold walk at grid line x (lines 864-865):
\* slope * (x - x0) + y0 is NaN for an infinite slope
XWalkRow(e, x, nan_cast) ==
    IF e.slope.kind = "fin"
    THEN FloorM(FMul(e.slope.val, x * Scale - e.start[1]) + e.start[2])
    ELSE nan_cast

\* floor(x) of the y-threshold walk at grid line y (lines 895-896):
\* (1 / slope) * (y - y0) + x0 is NaN for a zero slope, x0 for an infinite one
YWalkCol(e, y, nan_cast) ==
    IF e.slope.kind = "inf" THEN FloorM(e.start[1])
    ELSE IF e.slope.kind = "fin" /\ e.slope.val # 0
    THEN FloorM(FMul(RDiv(Scale * Scale, Abs(e.slope.val))
                         * (IF e.slope.val < 0 THEN -1 ELSE 1),
                     y * Scale - e.start[2]) + e.start[1])
    ELSE nan_cast

\* the cells the x-threshold walk updates at grid line x, in order
XCells(e, x, nan_cast) ==
    LET y_ix == XWalkRow(e, x, nan_cast)
    IN  <<<<x - 1, y_ix>>, <<x, y_ix>>>>
        \o (IF e.normal_theta >= 0 /\ e.normal_theta < QuarterPi
              THEN <<<<x - 2, y_ix>>, <<x - 1, y_ix>>>>
            ELSE IF e.normal_theta >= 3 * QuarterPi /\ e.normal_theta < 5 * QuarterPi
              THEN <<<<x, y_ix>>, <<x + 1, y_ix>>>>
            ELSE IF e.normal_theta >= 7 * QuarterPi /\ e.normal_theta < TwoPi
              THEN <<<<x - 2, y_ix>>, <<x - 1, y_ix>>>>
            ELSE << >>)

\* the cells the y-threshold walk updates at grid line y, in order
YCells(e, y, nan_cast) ==
    LET x_ix == YWalkCol(e, y, nan_cast)
    IN  <<<<x_ix, y - 1>>, <<x_ix, y>>>>
        \o (IF e.normal_theta >= QuarterPi /\ e.normal_theta < 3 * QuarterPi
              THEN <<<<x_ix, y - 2>>, <<x_ix, y - 1>>>>
            ELSE IF e.normal_theta >= 5 * QuarterPi /\ e.normal_theta < 7 * QuarterPi
              THEN <<<<x_ix, y>>, <<x_ix, y + 1>>>>
            ELSE << >>)

RECURSIVE XWalk(_, _, _, _)
XWalk(e, x, x_end, nan_cast) ==
    IF x > x_end THEN << >>
    ELSE XCells(e, x, nan_cast) \o XWalk(e, x + 1, x_end, nan_cast)

RECURSIVE YWalk(_, _, _, _)
YWalk(e, y, y_end, nan_cast) ==
    IF y > y_end THEN << >>
    ELSE YCells(e, y, nan_cast) \o YWalk(e, y + 1, y_end, nan_cast)

\* every atomic_max of one edge, in program order: the cells it updates
EdgeWrites(e, nan_cast) ==
    LET x_start == CeilM(Min2(e.start[1], e.end[1]))
        x_end   == FloorM(Max2(e.start[1], e.end[1]))
        y_start == CeilM(Min2(e.start[2], e.end[2]))
        y_end   == FloorM(Max2(e.start[2], e.end[2]))
    IN  XWalk(e, x_start, x_end, nan_cast) \o YWalk(e, y_start, y_end, nan_cast)

\* the field has 2^depth cells a side; debug=True checks every index
InField(cell, depth) ==
    /\ cell[1] >= 0 /\ cell[1] < Pow2(depth)
    /\ cell[2] >= 0 /\ cell[2] < Pow2(depth)

\* variant: a plain store in place of the atomic maximum
StoreLast(old, h) == h

\* variant: an atomic add in place of the atomic maximum
AtomicAdd(old, h) == old + h

\* ti.atomic_max(self.nodes[cell].height, h) on the stored height
AtomicMax(old, h) == Max2(old, h)

\* the writes of all edges in index order, each with its height
RECURSIVE AllWrites(_, _, _)
AllWrites(es, i, nan_cast) ==
    IF i > Len(es) THEN << >>
    ELSE LET w == EdgeWrites(es[i], nan_cast)
         IN  [k \in 1..Len(w) |-> [cell |-> w[k], h |-> es[i].height]]
                 \o AllWrites(es, i + 1, nan_cast)

\* the heights written to one cell, in program order
WritesTo(ws, cell, last) ==
    LET ks == SelectSeq([k \in 1..Len(ws) |-> k],
                        LAMBDA k : k <= last /\ ws[k].cell = cell)
    IN  [j \in 1..Len(ks) |-> ws[ks[j]].h]

RECURSIVE FoldMax(_, _, _)
FoldMax(old, hs, j) ==
    IF j > Len(hs) THEN old ELSE FoldMax(AtomicMax(old, hs[j]), hs, j + 1)

\* the grid after the writes ws[1..last]: a write activates its cell, whose
\* height starts at 0, and every write is an atomic_max
ApplyWrites(g, ws, last) ==
    LET touched == {ws[k].cell : k \in 1..last}
    IN  [cell \in DOMAIN g \cup touched |->
            FoldMax(IF cell \in DOMAIN g THEN g[cell] ELSE 0,
                    WritesTo(ws, cell, last), 1)]

\* the first write outside the field, Len + 1 when there is none
FirstOutside(ws, depth) ==
    IF \A k \in 1..Len(ws) : InField(ws[k].cell, depth) THEN Len(ws) + 1
    ELSE CHOOSE k \in 1..Len(ws) :
             /\ ~InField(ws[k].cell, depth)
             /\ \A j \in 1..(k - 1) : InField(ws[j].cell, depth)

\* the kernel add_edges_to_tree on grid g
Rasterize(g, es, nan_cast) ==
    LET ws == AllWrites(es, 1, nan_cast)
    IN  ApplyWrites(g, ws, Len(ws))

\* ray_trace's call of add_edges_to_tree (lines 312-315); an index outside
\* the field aborts the kernel after the writes before it
AddEdgesToTree ==
    /\ pc = "constructed"
    /\ LET ws == AllWrites(edges, 1, cfg.nan_cast)
           bad == FirstOutside(ws, dims.depth)
       IN  IF bad > Len(ws)
           THEN /\ nodes' = Rasterize(nodes, edges, cfg.nan_cast)
                /\ rasterRuns' = 1
                /\ pc' = "rasterized"
                /\ err' = err
           ELSE /\ nodes' = ApplyWrites(nodes, ws, bad - 1)
                /\ rasterRuns' = rasterRuns
                /\ pc' = "error"
                /\ err' = "out_of_bound"
    /\ UNCHANGED <<par, cfg, sky, gdf, dims, buildings, edges, xyz_views, rad, ray,
                   time_series, results>>

\* a further call of the kernel add_edges_to_tree on the populated grid
Rerasterize ==
    /\ pc = "rasterized"
    /\ nodes' = Rasterize(nodes, edges, cfg.nan_cast)
    /\ rasterRuns' = IF rasterRuns < 2 THEN rasterRuns + 1 ELSE rasterRuns
    /\ UNCHANGED <<par, cfg, sky, gdf, pc, err, dims, buildings, edges, xyz_views,
                   rad, ray, time_series, results>>

----------------------------------------------------------------------------
(* ray_trace: sensor layout *)

\* self.n_azimuths: the tracer sweeps half of the sky's azimuths
NAzimuths == cfg.n_azimuths \div 2

NElevations == sky.n_elevations

\* np.cumsum of xyz_sensor_ct up to (not including) edge j: every XY sensor
\* of an edge carries n_floors XYZ sensors
RECURSIVE XYZStart(_, _)
XYZStart(es, j) ==
    IF j <= 1 THEN 0
    ELSE XYZStart(es, j - 1) + es[j - 1].sensor_ct * es[j - 1].n_floors

XYSensorCount == IF Len(edges) = 0 THEN 0 ELSE edges[Len(edges)].sensor_end_ix

XYZSensorCount == XYZStart(edges, Len(edges) + 1)

\* sensor_parent_ix: the edge (1-based) whose sensor range holds XY sensor i
ParentEdge(i) ==
    CHOOSE j \in 1..Len(edges) :
        edges[j].sensor_start_ix <= i /\ i < edges[j].sensor_end_ix

\* init_xy_sensors: location of XY sensor i
XYSensorLoc(i) ==
    LET edge == edges[ParentEdge(i)]
        gap_ct == i - edge.sensor_start_ix
        along == cfg.sensor_inset
                     + RDiv(gap_ct * cfg.spacing_num, cfg.spacing_den)
    IN  <<edge.start[1] + FMul(edge.slopevec[1], along)
              + FMul(edge.normal[1], cfg.sensor_normal_offset),
          edge.start[2] + FMul(edge.slopevec[2], along)
              + FMul(edge.normal[2], cfg.sensor_normal_offset)>>

\* xy_sensor_parent_ix and init_xyz_sensors: XYZ sensor s
XYZSensor(s) ==
    LET j == CHOOSE k \in 1..Len(edges) :
                 XYZStart(edges, k) <= s /\ s < XYZStart(edges, k + 1)
        off == s - XYZStart(edges, j)
        floor_ix == off % edges[j].n_floors
    IN  [parent_sensor_id |-> edges[j].sensor_start_ix + off \div edges[j].n_floors,
         parent_edge_id   |-> j,
         floor_ix         |-> floor_ix,
         height           |-> (floor_ix * 3 * cfg.f2f_height) \div 2]

\* xyz_ray_ct < 2**32, evaluated without leaving 32 bits
RayCountOk ==
    LET k == NAzimuths * NElevations
        hi == XYZSensorCount \div RayLimitRoot
        lo == XYZSensorCount % RayLimitRoot
    IN  hi * k + (lo * k) \div RayLimitRoot < RayLimitRoot

RayCount == XYZSensorCount * NAzimuths * NElevations

\* ti.ndrange(xyz sensors, n_azimuths, n_elevations), row-major
RayOf(r) ==
    [s |-> r \div (NAzimuths * NElevations),
     a |-> (r \div NElevations) % NAzimuths,
     e |-> r % NElevations]

FirstRay == IF RayCount > 0
            THEN [active |-> TRUE, ix |-> 0, ray_step_ix |-> 0, hit_found |-> 0]
            ELSE NoRay

\* ray_trace from the sensor count to the ray count assertion (lines 317-380)
\* np.repeat of the XY sensors by their xyz_sensor_ct rejects a negative count
NegativeRepeats ==
    \E j \in 1..Len(edges) : edges[j].sensor_ct > 0 /\ edges[j].n_floors < 0

InitSensors ==
    /\ pc = "rasterized"
    /\ IF NegativeRepeats
       THEN pc' = "error" /\ err' = "negative_repeats" /\ ray' = ray
       ELSE IF RayCountOk
       THEN pc' = "tracing" /\ err' = err /\ ray' = FirstRay
       ELSE pc' = "error" /\ err' = "ray_count" /\ ray' = ray
    /\ UNCHANGED <<par, cfg, sky, gdf, dims, buildings, edges, nodes, rasterRuns,
                   xyz_views, rad, time_series, results>>

----------------------------------------------------------------------------
(* xyz_trace_unified and trace_xyz_ray *)

TanEl == IF sky.mfactor = 1 THEN TanEl1 ELSE TanEl2

CosEl == IF sky.mfactor = 1 THEN CosEl1 ELSE CosEl2

\* self.azimuths[az_ix] + edge.az_start_angle
AzAngle(s, a) ==
    a * AzimuthInc(cfg.n_azimuths) + edges[XYZSensor(s).parent_edge_id].az_start_angle

Distance(k) == k * cfg.ray_step_size

\* next_loc = start + distance * slope
NextLoc(s, a, k) ==
    LET start == XYSensorLoc(XYZSensor(s).parent_sensor_id)
    IN  <<start[1] + FMul(Distance(k), Cos(AzAngle(s, a))),
          start[2] + FMul(Distance(k), Sin(AzAngle(s, a)))>>

\* variant: the test on the distance left out
InDomainAnyDistance(s, a, k) ==
    LET next_loc == NextLoc(s, a, k)
    IN  /\ next_loc[1] > 0
        /\ next_loc[2] > 0
        /\ next_loc[1] < dims.width
        /\ next_loc[2] < dims.length

InDomain(s, a, k) ==
    LET next_loc == NextLoc(s, a, k)
    IN  /\ next_loc[1] > 0
        /\ next_loc[2] > 0
        /\ next_loc[1] < dims.width
        /\ next_loc[2] < dims.length
        /\ Distance(k) < cfg.max_ray_length

\* variant: the comparison turned round
ShallowerThan(height_diff, distance, e) ==
    height_diff * Scale < distance * TanEl[e + 1]

\* variant: the comparison with >= in place of >
SteeperOrLevel(height_diff, distance, e) ==
    height_diff * Scale >= distance * TanEl[e + 1]

\* atan2(height_diff, distance) > el_angle for distance >= 0 and an
\* elevation strictly between 0 and pi/2
SteeperThan(height_diff, distance, e) ==
    height_diff * Scale > distance * TanEl[e + 1]

\* the body of the while loop up to the assignment of hit_found
Obstructs(g, s, a, e, k) ==
    LET next_loc == NextLoc(s, a, k)
        cell == <<FloorM(next_loc[1]), FloorM(next_loc[2])>>
    IN  /\ cell \in DOMAIN g
        /\ SteeperThan(g[cell] - XYZSensor(s).height, Distance(k), e)

\* one iteration of the while loop of trace_xyz_ray
RayStep ==
    /\ pc = "tracing" /\ ray.active
    /\ LET q == RayOf(ray.ix)
       IN  /\ InDomain(q.s, q.a, ray.ray_step_ix) /\ ray.hit_found # 1
           /\ ray' = [ray EXCEPT
                  !.hit_found = IF Obstructs(nodes, q.s, q.a, q.e, ray.ray_step_ix)
                                THEN 1 ELSE @,
                  !.ray_step_ix = @ + 1]
    /\ UNCHANGED <<par, cfg, sky, gdf, pc, err, dims, buildings, edges, nodes,
                   rasterRuns, xyz_views, rad, time_series, results>>

\* the loop exit, the return value and the caller's update of rad and of the
\* view mask; the next ray of the range starts
RayEnd ==
    /\ pc = "tracing" /\ ray.active
    /\ LET q == RayOf(ray.ix)
       IN  /\ ~(InDomain(q.s, q.a, ray.ray_step_ix) /\ ray.hit_found # 1)
           /\ IF ray.hit_found = 0
              THEN /\ rad' = IF q.s \in DOMAIN rad
                             THEN [rad EXCEPT ![q.s] = @ + 1]
                             ELSE rad @@ (q.s :> 1)
                   /\ xyz_views' = xyz_views \cup {<<q.s, q.a, q.e>>}
              ELSE UNCHANGED <<rad, xyz_views>>
    /\ ray' = IF ray.ix + 1 < RayCount
              THEN [active |-> TRUE, ix |-> ray.ix + 1, ray_step_ix |-> 0,
                    hit_found |-> 0]
              ELSE [NoRay EXCEPT !.ix = RayCount]
    /\ UNCHANGED <<par, cfg, sky, gdf, pc, err, dims, buildings, edges, nodes,
                   rasterRuns, time_series, results>>

----------------------------------------------------------------------------
(* timestep_sky and assemble_results_df *)

RECURSIVE SumFn(_, _)
SumFn(f, n) == IF n = 0 THEN 0 ELSE f[n - 1] + SumFn(f, n - 1)

\* variant: the remainder of C, which takes the sign of the dividend
RawModPatch(az_angle) ==
    LET m == az_angle \div AzimuthInc(cfg.n_azimuths)
    IN  IF m >= 0 THEN m % sky.n_azimuths ELSE -((-m) % sky.n_azimuths)

\* cast(floor(az_angle / azimuth_inc), int) % sky.n_azimuths: the remainder
\* of a Taichi kernel is that of Python, with the sign of the divisor
SkyPatchOfAngle(az_angle) ==
    (az_angle \div AzimuthInc(cfg.n_azimuths)) % sky.n_azimuths

SkyPatchAzIx(s, a) == SkyPatchOfAngle(AzAngle(s, a))

\* cos(|az_angle - normal_theta|) * cos(elevations[el_ix]), in thousandths
IncidenceFactor(s, a, e) ==
    FMul(Cos(Abs(AzAngle(s, a) - edges[XYZSensor(s).parent_edge_id].normal_theta)),
         CosEl[e + 1])

\* what one active entry of xyz_views adds to its sensor at one timestep
Contribution(s, a, e, t) ==
    Irradiance(sky.pattern, e, SkyPatchAzIx(s, a), t) * IncidenceFactor(s, a, e)

\* the struct-for over the active entries of xyz_views, summed per sensor
Accumulate(views, s, t) ==
    SumFn([r \in 0..(NAzimuths * NElevations - 1) |->
              LET a == r \div NElevations
                  e == r % NElevations
              IN  IF <<s, a, e>> \in views THEN Contribution(s, a, e, t) ELSE 0],
          NAzimuths * NElevations)

\* ray_trace lines 408-411: xyz_sensor_timesteps is created and filled
TimestepSky ==
    /\ pc = "tracing" /\ ~ray.active
    /\ time_series' = [s \in 0..(XYZSensorCount - 1) |->
                          [t \in 0..(NHours - 1) |-> Accumulate(xyz_views, s, t)]]
    /\ pc' = "timestepped"
    /\ UNCHANGED <<par, cfg, sky, gdf, err, dims, buildings, edges, nodes, rasterRuns,
                   xyz_views, rad, ray, results>>

RadOf(s) == IF s \in DOMAIN rad THEN rad[s] ELSE 0

\* the merged results table, one row per XYZ sensor
ResultsDf ==
    [i \in 1..XYZSensorCount |->
        LET sensor == XYZSensor(i - 1)
            edge == edges[sensor.parent_edge_id]
        IN  [XYZSensorID |-> i - 1,
             Radiation   |-> RadOf(i - 1),
             XYSensorID  |-> sensor.parent_sensor_id,
             EdgeID      |-> sensor.parent_edge_id - 1,
             Orientation |-> edge.orientation,
             BuildingID  |-> edge.building_id]]

AssembleResultsDf ==
    /\ pc = "timestepped"
    /\ results' = ResultsDf
    /\ pc' = "done"
    /\ UNCHANGED <<par, cfg, sky, gdf, err, dims, buildings, edges, nodes, rasterRuns,
                   xyz_views, rad, ray, time_series>>

Next ==
    \/ Construct
    \/ AddEdgesToTree
    \/ Rerasterize
    \/ InitSensors
    \/ RayStep
    \/ RayEnd
    \/ TimestepSky
    \/ AssembleResultsDf

Spec == Init /\ [][Next]_vars

----------------------------------------------------------------------------
(* Sky.reinhart_to_meridinal_parallel_sky *)

\* radiances are counted in 1/RadianceUnit so that every group mean is exact
RadianceUnit == 720

SkyAzimuths == {2, 4, 6, 12, 18, 24, 30, 48, 60}

SkyPatterns == {"flat", "ramp", "alt"}

BasePatchesPerElevation == <<30, 30, 24, 24, 18, 12, 6>>

\* base_patches_per_elevation.repeat(mfactor) * mfactor
PatchesPerElevation(m) ==
    [i \in 1..(Len(BasePatchesPerElevation) * m) |->
        BasePatchesPerElevation[((i - 1) \div m) + 1] * m]

\* np.cumsum(patches_per_elevation)[i - 1]
RECURSIVE ElevationPatchesEndIx(_, _)
ElevationPatchesEndIx(m, i) ==
    IF i = 0 THEN 0
    ELSE ElevationPatchesEndIx(m, i - 1) + PatchesPerElevation(m)[i]

\* np.roll(end_ix, 1) with the first entry set to 0
ElevationPatchesStartIx(m, i) ==
    IF i = 1 THEN 0 ELSE ElevationPatchesEndIx(m, i - 1)

RECURSIVE Gcd(_, _)
Gcd(a, b) == IF b = 0 THEN a ELSE Gcd(b, a % b)

Lcm(a, b) == (a * b) \div Gcd(a, b)

\* the channel mean of gendaymtx's patch p (1-based) at hour t
SkyValue(pattern, p, t) ==
    RadianceUnit * (CASE pattern = "flat" -> 1
                      [] pattern = "ramp" -> p + t
                      [] OTHER -> (p * (t + 1)) % 5)

\* values.reshape(-1, hours) of a gendaymtx run with the sky's mfactor:
\* ground, the Reinhart bands, zenith
SkyMatrix(m, pattern) ==
    [p \in 1..(ElevationPatchesEndIx(m, Len(BasePatchesPerElevation) * m) + 2) |->
        [t \in 1..NHours |-> SkyValue(pattern, p, t)]]

\* variant: the slice [0:-2], which keeps the ground patch
StripLastTwo(ts) == SubSeq(ts, 1, Len(ts) - 2)

\* sky_patch_timeseries[1:-1]
StripGroundZenith(ts) == SubSeq(ts, 2, Len(ts) - 1)

\* variant: np.tile, the whole band laid end to end div_factor times
Tile(patches, div_factor) ==
    [k \in 1..(Len(patches) * div_factor) |-> patches[((k - 1) % Len(patches)) + 1]]

\* elevation_patches.repeat(div_factor, axis=0)
Repeat(patches, div_factor) ==
    [k \in 1..(Len(patches) * div_factor) |-> patches[((k - 1) \div div_factor) + 1]]

\* reshape(n_azimuths, grouping_factor, hours).mean(axis=1)
GroupMean(subdivided, n_az, grouping_factor) ==
    [a \in 1..n_az |->
        [t \in 1..NHours |->
            SumFn([j \in 0..(grouping_factor - 1) |->
                      subdivided[(a - 1) * grouping_factor + j + 1][t]],
                  grouping_factor) \div grouping_factor]]

\* one pass of the loop over the elevation bands
ResampleBand(ts, m, i, n_az) ==
    LET elevation_patches == SubSeq(ts, ElevationPatchesStartIx(m, i) + 1,
                                    ElevationPatchesEndIx(m, i))
        patches_in_elevation == Len(elevation_patches)
        lcm == Lcm(patches_in_elevation, n_az)
        div_factor == lcm \div patches_in_elevation
        grouping_factor == lcm \div n_az
    IN  GroupMean(Repeat(elevation_patches, div_factor), n_az, grouping_factor)

\* np.stack(sky_patch_radiances)
Radiance(mtx, m, n_az) ==
    LET ts == StripGroundZenith(mtx)
    IN  [i \in 1..Len(PatchesPerElevation(m)) |-> ResampleBand(ts, m, i, n_az)]

InitSky ==
    /\ cfg = BaseCfg
    /\ \E m \in {1, 2}, n_az \in SkyAzimuths, pattern \in SkyPatterns :
           sky = [mfactor |-> m, n_azimuths |-> n_az,
                  n_elevations |-> Len(PatchesPerElevation(m)),
                  pattern |-> pattern, mtx |-> SkyMatrix(m, pattern),
                  radiance |-> << >>]
    /\ gdf = GisTables["empty"]
    /\ pc = "sky_new"
    /\ err = ""
    /\ dims = [length |-> 0, width |-> 0, depth |-> 0]
    /\ buildings = << >> /\ edges = << >> /\ nodes = << >>
    /\ rasterRuns = 0
    /\ xyz_views = {}
    /\ rad = << >>
    /\ ray = NoRay
    /\ time_series = << >>
    /\ results = "none"
    /\ par = << >>

ReinhartToMeridinalParallelSky ==
    /\ pc = "sky_new"
    /\ ElevationPatchesEndIx(sky.mfactor, Len(PatchesPerElevation(sky.mfactor)))
           = Len(sky.mtx) - 2
    /\ sky' = [sky EXCEPT !.n_elevations = Len(PatchesPerElevation(sky.mfactor)),
                          !.radiance = Radiance(sky.mtx, sky.mfactor, sky.n_azimuths)]
    /\ pc' = "sky_converted"
    /\ UNCHANGED <<par, cfg, gdf, err, dims, buildings, edges, nodes, rasterRuns,
                   xyz_views, rad, ray, time_series, results>>

NextSky == ReinhartToMeridinalParallelSky

SpecSky == InitSky /\ [][NextSky]_vars


----------------------------------------------------------------------------
(* Properties *)

Constructed == pc \in {"constructed", "rasterized", "tracing", "timestepped", "done"}

TraceComplete == pc \in {"timestepped", "done"} \/ (pc = "tracing" /\ ~ray.active)

\* the reference scalar walk of a ray from origin at azimuth psi, seen from
\* height h: sample k lies at distance k * ray_step_size from the origin
RefSample(origin, psi, k) ==
    <<origin[1] + FMul(k * cfg.ray_step_size, Cos(psi)),
      origin[2] + FMul(k * cfg.ray_step_size, Sin(psi))>>

RefInside(origin, psi, k) ==
    LET p == RefSample(origin, psi, k)
    IN  /\ 0 < p[1] /\ p[1] < dims.width
        /\ 0 < p[2] /\ p[2] < dims.length
        /\ k * cfg.ray_step_size < cfg.max_ray_length

RefCell(origin, psi, k) ==
    LET p == RefSample(origin, psi, k) IN <<FloorM(p[1]), FloorM(p[2])>>

\* tan(obstruction angle) minus tan(phi_e), scaled; the cell is active
RefAngle(origin, psi, h, e, k) ==
    (nodes[RefCell(origin, psi, k)] - h) * Scale
        - k * cfg.ray_step_size * TanEl[e + 1]

\* the walk from sample k on: TRUE when some sample before the ray leaves
\* the domain lies in an active cell strictly above the elevation angle
RECURSIVE RefWalk(_, _, _, _, _)
RefWalk(origin, psi, h, e, k) ==
    IF ~RefInside(origin, psi, k) THEN FALSE
    ELSE IF /\ RefCell(origin, psi, k) \in DOMAIN nodes
            /\ RefAngle(origin, psi, h, e, k) > 0
    THEN TRUE
    ELSE RefWalk(origin, psi, h, e, k + 1)

\* TRUE when some sample of the walk lies in an active cell exactly at the
\* elevation angle
RECURSIVE RefGrazes(_, _, _, _, _)
RefGrazes(origin, psi, h, e, k) ==
    IF ~RefInside(origin, psi, k) THEN FALSE
    ELSE IF /\ k > 0
            /\ RefCell(origin, psi, k) \in DOMAIN nodes
            /\ RefAngle(origin, psi, h, e, k) = 0
    THEN TRUE
    ELSE RefGrazes(origin, psi, h, e, k + 1)

RefOrigin(s) == XYSensorLoc(XYZSensor(s).parent_sensor_id)

RefBlocked(s, a, e) ==
    RefWalk(RefOrigin(s), AzAngle(s, a), XYZSensor(s).height, e, 0)

RayAgrees(r) ==
    LET q == RayOf(r)
    IN  (<<q.s, q.a, q.e>> \in xyz_views) <=> ~RefBlocked(q.s, q.a, q.e)

\* C1: when a ray has been traced, and when the whole trace has completed,
\* the visibility bit of (s, a, e) is set if and only if the reference walk
\* of the same ray meets no active cell whose obstruction angle is strictly
\* greater than phi_e; a sample exactly at phi_e does not obstruct.
C1_TraceMatchesReference ==
    /\ (pc = "tracing" /\ ray.ix > 0 /\ ray.ray_step_ix = 0) => RayAgrees(ray.ix - 1)
    /\ (pc = "tracing" /\ ~ray.active) => \A r \in 0..(RayCount - 1) : RayAgrees(r)

\* a completed trace with a blocked ray and with a visible ray one of whose
\* samples lies in an active cell exactly at the elevation angle
C1_Witness ==
    /\ pc = "tracing" /\ ~ray.active
    /\ \E r \in 0..(RayCount - 1) :
           LET q == RayOf(r) IN <<q.s, q.a, q.e>> \notin xyz_views
    /\ \E r \in 0..(RayCount - 1) :
           LET q == RayOf(r)
           IN  /\ <<q.s, q.a, q.e>> \in xyz_views
               /\ RefGrazes(RefOrigin(q.s), AzAngle(q.s, q.a),
                            XYZSensor(q.s).height, q.e, 0)

\* C2 (as stated): in a scene of one footprint every ray of every XYZ
\* sensor ends unobstructed, so rad = n_azimuths * n_elevations everywhere.
C2_LoneBuildingUnobstructed ==
    (gdf.rows = 1 /\ TraceComplete) =>
        \A s \in 0..(XYZSensorCount - 1) :
            /\ RadOf(s) = NAzimuths * NElevations
            /\ \A a \in 0..(NAzimuths - 1), e \in 0..(NElevations - 1) :
                   <<s, a, e>> \in xyz_views

\* twice the signed area of a ring: positive for a counter-clockwise ring
SignedArea2(poly) ==
    SumFn([i \in 0..(Len(poly) - 1) |->
              LET p == poly[i + 1]
                  q == poly[((i + 1) % Len(poly)) + 1]
                  o == poly[1]
              IN  (p[1] - o[1]) * (q[2] - o[2]) - (q[1] - o[1]) * (p[2] - o[2])],
          Len(poly))

\* the crossing-number test on doubled coordinates
Inside2(poly, x, y) ==
    Cardinality({i \in 1..Len(poly) :
        LET p == <<2 * poly[i][1], 2 * poly[i][2]>>
            n == poly[(i % Len(poly)) + 1]
            q == <<2 * n[1], 2 * n[2]>>
            dy == q[2] - p[2]
        IN  /\ (p[2] > y) # (q[2] > y)
            /\ IF dy > 0 THEN (x - p[1]) * dy < (y - p[2]) * (q[1] - p[1])
                         ELSE (x - p[1]) * dy > (y - p[2]) * (q[1] - p[1])}) % 2 = 1

\* edge_midpoint + 0.1 m * normal lies in the polygon (doubled coordinates)
ProbeInside(e) ==
    Inside2(gdf.geom[e.building_id + 1],
            e.start[1] + e.end[1] + (200 * e.normal[1]) \div Scale,
            e.start[2] + e.end[2] + (200 * e.normal[2]) \div Scale)

UnitLength(v) == Abs(v[1] * v[1] + v[2] * v[2] - Scale * Scale) <= 2 * Scale

\* C3 (as stated): every edge of a counter-clockwise footprint has a normal
\* of unit length that points out of the footprint.
C3_NormalOutwardForCCW ==
    Constructed =>
        \A j \in 1..Len(edges) :
            SignedArea2(gdf.geom[edges[j].building_id + 1]) > 0 =>
                UnitLength(edges[j].normal) /\ ~ProbeInside(edges[j])

BuildingEdges(b) == {j \in 1..Len(edges) : edges[j].building_id = b - 1}

\* C4 (as stated): for every building the edge weights sum to 1 and the four
\* direction weights sum to 1 once the scene has been built.
C4_WeightsSumToOne ==
    Constructed =>
        \A b \in 1..Len(buildings) :
            /\ Abs(SumFn([j \in 0..(Len(edges) - 1) |->
                           IF j + 1 \in BuildingEdges(b) THEN edges[j + 1].weight ELSE 0],
                         Len(edges)) - Scale) <= 1
            /\ Abs(buildings[b].north_weight + buildings[b].east_weight
                     + buildings[b].south_weight + buildings[b].west_weight
                     - Scale) <= 1

\* the edges whose rasterization touches a cell
Touching(cell) ==
    {j \in 1..Len(edges) :
        \E k \in 1..Len(EdgeWrites(edges[j], cfg.nan_cast)) :
            EdgeWrites(edges[j], cfg.nan_cast)[k] = cell}

TouchedCells ==
    UNION {{EdgeWrites(edges[j], cfg.nan_cast)[k] :
               k \in 1..Len(EdgeWrites(edges[j], cfg.nan_cast))} : j \in 1..Len(edges)}

MaxHeight(js) ==
    CHOOSE h \in {edges[j].height : j \in js} : \A j \in js : edges[j].height <= h

\* C5 (amended): after rasterization the active cells are exactly the cells
\* touched by an edge, and each holds a height >= 0 equal to the larger of
\* 0 and the maximum height over the edges touching it (so a building of
\* height 0 leaves active cells of height 0).
C5_ActiveCellsHoldMaxHeight ==
    pc = "rasterized" =>
        /\ DOMAIN nodes = TouchedCells
        /\ \A cell \in DOMAIN nodes :
               /\ nodes[cell] >= 0
               /\ nodes[cell] = Max2(0, MaxHeight(Touching(cell)))

\* a rasterized grid with a cell touched by edges of two different heights
C5_Witness ==
    /\ pc = "rasterized"
    /\ \E cell \in DOMAIN nodes :
           \E i \in Touching(cell), j \in Touching(cell) :
               i < j /\ edges[i].height > edges[j].height

\* C5 (as stated): every active cell has height > 0 and holds the maximum
\* height over the edges touching it, whatever the building heights.
C5_ActiveCellsPositive ==
    pc = "rasterized" =>
        /\ DOMAIN nodes = TouchedCells
        /\ \A cell \in DOMAIN nodes :
               nodes[cell] > 0 /\ nodes[cell] = MaxHeight(Touching(cell))

\* C6: a further run of add_edges_to_tree on the same edge list leaves the
\* set of active cells and every cell's height as the first run left them.
C6_RerasterizeIdempotent ==
    [][(pc = "rasterized" /\ pc' = "rasterized") => nodes' = nodes]_vars

\* the kernel has run twice on a scene that activates cells
C6_Witness == pc = "rasterized" /\ rasterRuns = 2 /\ DOMAIN nodes # {}

\* C7: for a sky without negative irradiance, every entry of time_series is
\* >= 0 after timestep_sky, and the incidence factor of every sensor, tracer
\* azimuth and elevation is >= 0.
C7_TimeSeriesNonNegative ==
    (/\ pc = "timestepped"
     /\ \A e \in 0..(NElevations - 1), a \in 0..(sky.n_azimuths - 1),
           t \in 0..(NHours - 1) : Irradiance(sky.pattern, e, a, t) >= 0)
    => /\ \A s \in DOMAIN time_series :
              \A t \in DOMAIN time_series[s] : time_series[s][t] >= 0
       /\ \A s \in 0..(XYZSensorCount - 1), a \in 0..(NAzimuths - 1),
             e \in 0..(NElevations - 1) : IncidenceFactor(s, a, e) >= 0

\* timestep_sky has accumulated a positive irradiance on some sensor
C7_Witness ==
    /\ pc = "timestepped"
    /\ xyz_views # {}
    /\ \E s \in DOMAIN time_series :
           \E t \in DOMAIN time_series[s] : time_series[s][t] > 0

\* C8 (as stated): a table with zero rows constructs and traces without
\* error and ends with zero edges, zero sensors and empty outputs.
C8_EmptyGisCompletes ==
    GisTables[cfg.gis].rows = 0 =>
        /\ pc # "error"
        /\ pc = "done" =>
               /\ Len(edges) = 0 /\ XYSensorCount = 0 /\ XYZSensorCount = 0
               /\ results = << >> /\ time_series = << >>

\* the invalid inputs, stated on the caller's arguments
BadNodeWidth == cfg.node_width # 1

TooManyBuildings == GisTables[cfg.gis].rows >= BuildingLimit

MissingColumn(col) == col \notin GisTables[cfg.gis].cols

OddSkyAzimuths == sky.n_azimuths % 2 = 1

\* the padded bounding box needs more than 2^15 cells a side
TooDeep ==
    LET polys == GisTables[cfg.gis].geom
        pts == UNION {{polys[i][k] : k \in 1..Len(polys[i])} : i \in 1..Len(polys)}
        span(S) == (CHOOSE v \in S : \A w \in S : w <= v)
                       - (CHOOSE v \in S : \A w \in S : v <= w)
    IN  /\ Len(polys) > 0
        /\ cfg.node_width = 1
        /\ Max2(span({p[1] : p \in pts}), span({p[2] : p \in pts})) + 10 * Scale
               > Pow2(DepthLimit - 1) * Scale

\* at least RayLimitRoot * RayLimitRoot rays: already the full multiples of
\* RayLimitRoot among the sensors account for that many
TooManyRays ==
    (XYZSensorCount \div RayLimitRoot) * NAzimuths * NElevations >= RayLimitRoot

NothingTraced == xyz_views = {} /\ rad = << >> /\ ~ray.active /\ ray.ix = 0

NothingEmitted == results = "none" /\ time_series = << >>

\* C9: each fatal condition stops the pipeline with its error before a ray
\* is traced and before the results table or time_series exists.
C9_FatalErrorsAbortEarly ==
    LET initFatal == \/ BadNodeWidth \/ TooManyBuildings
                     \/ MissingColumn(cfg.height_col) \/ MissingColumn(cfg.id_col)
                     \/ MissingColumn(cfg.archetype_col)
                     \/ OddSkyAzimuths \/ TooDeep
    IN  /\ initFatal => pc \in {"new", "error"}
        /\ TooManyRays => pc \in {"constructed", "rasterized", "error"}
        /\ (initFatal \/ TooManyRays) => NothingTraced /\ NothingEmitted
        /\ pc = "error" =>
               /\ NothingTraced /\ NothingEmitted
               /\ BadNodeWidth => err = "node_width"
               /\ TooManyBuildings => err = "too_many_buildings"
               /\ MissingColumn(cfg.height_col) => err = "height_col"
               /\ MissingColumn(cfg.id_col) => err = "id_col"
               /\ MissingColumn(cfg.archetype_col) => err = "archetype_col"
               /\ OddSkyAzimuths => err = "n_azimuths_odd"
               /\ TooDeep => err = "depth"
               /\ TooManyRays => err = "ray_count"

\* the scene was built and rasterized, and the ray count assertion stopped it
C9_Witness == pc = "error" /\ err = "ray_count" /\ TooManyRays /\ DOMAIN nodes # {}

\* the native patch count of band i (1-based) and the patches below it
NativePatches(m, i) == <<30, 30, 24, 24, 18, 12, 6>>[((i - 1) \div m) + 1] * m

PatchesBelow(m, i) == SumFn([j \in 0..(i - 2) |-> NativePatches(m, j + 1)], i - 1)

\* C10: the resampled radiance has shape (7m, N_a, hours) from 144 m^2 + 2
\* patches, and a band whose native patch count equals N_a comes out
\* unchanged: output patch a is input patch a of that band at every hour,
\* the ground patch and the zenith patch being discarded.
C10_ResamplerIdentityAndShape ==
    pc = "sky_converted" =>
        LET m == sky.mfactor
        IN  /\ Len(sky.mtx) = 144 * m * m + 2
            /\ Len(sky.radiance) = 7 * m
            /\ \A i \in 1..Len(sky.radiance) :
                   /\ Len(sky.radiance[i]) = sky.n_azimuths
                   /\ \A a \in 1..sky.n_azimuths :
                          Len(sky.radiance[i][a]) = NHours
                   /\ NativePatches(m, i) = sky.n_azimuths =>
                          \A a \in 1..sky.n_azimuths, t \in 1..NHours :
                              sky.radiance[i][a][t]
                                  = sky.mtx[1 + PatchesBelow(m, i) + a][t]

\* a converted sky of mfactor 2 with a band of exactly N_a patches whose
\* radiance differs from patch to patch
C10_Witness ==
    /\ pc = "sky_converted" /\ sky.mfactor = 2 /\ sky.pattern = "ramp"
    /\ \E i \in 1..Len(sky.radiance) : NativePatches(sky.mfactor, i) = sky.n_azimuths

\* the native patches of band i (1-based) of the stripped input
NativeBand(i) ==
    SubSeq(sky.mtx, 2 + PatchesBelow(sky.mfactor, i),
           1 + PatchesBelow(sky.mfactor, i) + NativePatches(sky.mfactor, i))

\* the length of azimuth shared by native patch p and output patch j (both
\* 0-based) of a band of n patches, in units of 1 / (n * N_a) of the band
Overlap(n, n_a, p, j) ==
    Max2(0, Min2((p + 1) * n_a, (j + 1) * n) - Max2(p * n_a, j * n))

\* n times the overlap-weighted average of the native patches under output j
OverlapWeighted(band, n_a, j, t) ==
    SumFn([p \in 0..(Len(band) - 1) |-> band[p + 1][t] * Overlap(Len(band), n_a, p, j)],
          Len(band))

\* C11: every output patch of every band is the azimuth-overlap-weighted
\* average of the native patches under its interval [j/N_a, (j+1)/N_a); the
\* band's mean radiance is preserved; a uniform unit sky comes out as 1.
C11_OverlapWeightedAverage ==
    pc = "sky_converted" =>
        \A i \in 1..Len(sky.radiance) :
            LET band == NativeBand(i)
                n == Len(band)
                n_a == sky.n_azimuths
            IN  \A t \in 1..NHours :
                    /\ \A j \in 0..(n_a - 1) :
                           /\ sky.radiance[i][j + 1][t] * n
                                  = OverlapWeighted(band, n_a, j, t)
                           /\ sky.pattern = "flat" =>
                                  sky.radiance[i][j + 1][t] = RadianceUnit
                    /\ n * SumFn([j \in 0..(n_a - 1) |-> sky.radiance[i][j + 1][t]], n_a)
                           = n_a * SumFn([p \in 0..(n - 1) |-> band[p + 1][t]], n)

\* a converted sky with a band whose patches straddle the output intervals
\* (neither count divides the other) and differ from patch to patch
C11_Witness ==
    /\ pc = "sky_converted" /\ sky.pattern = "ramp"
    /\ \E i \in 1..Len(sky.radiance) :
           LET n == NativePatches(sky.mfactor, i)
           IN  /\ n % sky.n_azimuths # 0 /\ sky.n_azimuths % n # 0
               /\ \E j \in 1..(sky.n_azimuths - 1) :
                      sky.radiance[i][j][1] # sky.radiance[i][j + 1][1]

----------------------------------------------------------------------------
(* The pipeline as a function of the footprints, for comparing scenes *)

\* a quarter turn about the origin, counter-clockwise: 6 angle units
Turn(poly) == [i \in 1..Len(poly) |-> <<-poly[i][2], poly[i][1]>>]

\* what __init__ and add_edges_to_tree make of the footprints polys, with
\* the configuration, heights and sky of the current run
SceneOf(polys) ==
    LET padding == 5 * cfg.node_width * Scale
        geom == Relocate(polys, padding)
        b == TotalBounds(geom)
        es == ExtractFlatEdgeList(geom, GisTables[cfg.gis].height, cfg, sky.n_azimuths)
    IN  [ edges |-> es,
          nodes |-> Rasterize(<< >>, es, cfg.nan_cast),
          width |-> b.x_high + padding,
          length |-> b.y_high + padding ]

\* XYZ sensor s of a scene: its edge, XY location and height
SensorIn(sc, s) ==
    LET j == CHOOSE k \in 1..Len(sc.edges) :
                 XYZStart(sc.edges, k) <= s /\ s < XYZStart(sc.edges, k + 1)
        edge == sc.edges[j]
        off == s - XYZStart(sc.edges, j)
        gap_ct == off \div edge.n_floors
        along == cfg.sensor_inset + RDiv(gap_ct * cfg.spacing_num, cfg.spacing_den)
    IN  [ psi0 |-> edge.az_start_angle,
          loc |-> <<edge.start[1] + FMul(edge.slopevec[1], along)
                        + FMul(edge.normal[1], cfg.sensor_normal_offset),
                    edge.start[2] + FMul(edge.slopevec[2], along)
                        + FMul(edge.normal[2], cfg.sensor_normal_offset)>>,
          height |-> ((off % edge.n_floors) * 3 * cfg.f2f_height) \div 2 ]

\* the walk of trace_xyz_ray from sample k on: TRUE when no sample obstructs
RECURSIVE WalkIn(_, _, _, _, _)
WalkIn(sc, sen, psi, e, k) ==
    LET x == sen.loc[1] + FMul(Distance(k), Cos(psi))
        y == sen.loc[2] + FMul(Distance(k), Sin(psi))
        cell == <<FloorM(x), FloorM(y)>>
    IN  IF ~(x > 0 /\ y > 0 /\ x < sc.width /\ y < sc.length
               /\ Distance(k) < cfg.max_ray_length)
        THEN TRUE
        ELSE IF cell \in DOMAIN sc.nodes
                  /\ SteeperThan(sc.nodes[cell] - sen.height, Distance(k), e)
        THEN FALSE
        ELSE WalkIn(sc, sen, psi, e, k + 1)

\* the visibility mask xyz_trace_unified leaves on a scene
ViewsIn(sc) ==
    LET n == XYZStart(sc.edges, Len(sc.edges) + 1)
    IN  { v \in (0..(n - 1)) \X (0..(NAzimuths - 1)) \X (0..(NElevations - 1)) :
            LET sen == SensorIn(sc, v[1])
            IN  WalkIn(sc, sen, v[2] * AzimuthInc(cfg.n_azimuths) + sen.psi0, v[3], 0) }

\* the function of the footprints agrees with the run on the run's own scene
PureTraceAgrees ==
    TraceComplete => ViewsIn(SceneOf(GisTables[cfg.gis].geom)) = xyz_views

\* the scene moved by a vector, and the scene turned by a quarter turn
Moved == { [i \in 1..Len(GisTables[cfg.gis].geom) |->
              Translate(GisTables[cfg.gis].geom[i], d[1], d[2])]
           : d \in {<<7000, -3000>>, <<-250, 125>>} }

Turned == [i \in 1..Len(GisTables[cfg.gis].geom) |-> Turn(GisTables[cfg.gis].geom[i])]

\* C12 (as stated): the scene moved by a vector, and the scene turned by a
\* quarter turn, give every sensor the visibility mask (and so the rad
\* tally and, up to the turn of the sky's azimuth indices, the time series)
\* it has in the scene itself; ray azimuths are counted from each edge's own
\* normal, so corresponding rays carry the same indices.
C12_MovedOrTurnedSceneAgrees ==
    TraceComplete =>
        \A polys \in Moved \cup {Turned} : ViewsIn(SceneOf(polys)) = xyz_views

----------------------------------------------------------------------------
(* The two-phase trace: xy_trace or xy_trace_divergent, then xyz_trace *)

\* the default of steps_per_unroll_loop
StepsPerUnrollLoop == 100

NRaySteps == cfg.max_ray_length \div cfg.ray_step_size

\* int(np.ceil(n_ray_steps / steps_per_unroll_loop))
NLoopsToUnroll == (NRaySteps + StepsPerUnrollLoop - 1) \div StepsPerUnrollLoop

\* the length of the dynamic list of hits of one (XY sensor, azimuth)
HitCapacity == Pow2(Log2Ceil(NRaySteps))

\* sample k of the ray of XY sensor i at azimuth index a
XYSample(i, a, k) ==
    LET start == XYSensorLoc(i)
        psi == a * AzimuthInc(cfg.n_azimuths) + edges[ParentEdge(i)].az_start_angle
    IN  <<start[1] + FMul(Distance(k), Cos(psi)), start[2] + FMul(Distance(k), Sin(psi))>>

\* the in_domain test of xy_trace, which has no test of the distance
InGrid(loc) == loc[1] > 0 /\ loc[2] > 0 /\ loc[1] < dims.width /\ loc[2] < dims.length

\* the Hit appended for sample k, or << >> when the sample registers none
HitAt(i, a, k) ==
    LET loc == XYSample(i, a, k)
        cell == <<FloorM(loc[1]), FloorM(loc[2])>>
    IN  IF InGrid(loc) /\ cell \in DOMAIN nodes
        THEN <<[height |-> nodes[cell], distance |-> Distance(k)]>>
        ELSE << >>

\* the hits of the steps ks, in step order
HitsOf(i, a, ks) ==
    LET hitting == {k \in ks : HitAt(i, a, k) # << >>}
    IN  [j \in 1..Cardinality(hitting) |->
            HitAt(i, a, CHOOSE k \in hitting :
                            Cardinality({x \in hitting : x < k}) = j - 1)[1]]

\* xy_trace: every step of every unrolled loop
XYTraceHits(i, a) == HitsOf(i, a, 0..(NLoopsToUnroll * StepsPerUnrollLoop - 1))

\* xy_trace_divergent: the while loop, which ends with the first sample out
\* of the grid or at max_ray_length
RECURSIVE XYTraceDivergentHits(_, _, _)
XYTraceDivergentHits(i, a, k) ==
    IF ~(InGrid(XYSample(i, a, k)) /\ Distance(k) < cfg.max_ray_length) THEN << >>
    ELSE HitAt(i, a, k) \o XYTraceDivergentHits(i, a, k + 1)

\* self.hits after the first phase
Hits(phase) ==
    [i \in 0..(XYSensorCount - 1) |->
        [a \in 0..(NAzimuths - 1) |->
            IF phase = "xy_trace" THEN XYTraceHits(i, a)
            ELSE XYTraceDivergentHits(i, a, 0)]]

\* XYSensor.hit_count: one counter per XY sensor, shared by its azimuths
HitCount(hits, i) == SumFn([a \in 0..(NAzimuths - 1) |-> Len(hits[i][a])], NAzimuths)

\* the while loop of xyz_trace from hit_ix on: "clear" or "hit", and the
\* index of the last entry read; an entry past the end of the list reads as
\* a zeroed Hit
RECURSIVE CheckHits(_, _, _, _, _)
CheckHits(list, n_hits_to_check, height, e, hit_ix) ==
    IF ~(hit_ix < n_hits_to_check) THEN [found |-> "clear", last |-> hit_ix - 1]
    ELSE LET hit == IF hit_ix < Len(list) THEN list[hit_ix + 1]
                    ELSE [height |-> 0, distance |-> 0]
         IN  IF SteeperThan(hit.height - height, hit.distance, e)
             THEN [found |-> "hit", last |-> hit_ix]
             ELSE CheckHits(list, n_hits_to_check, height, e, hit_ix + 1)

\* xyz_trace for the ray (s, a, e)
XYZTrace(hits, s, a, e) ==
    LET i == XYZSensor(s).parent_sensor_id
    IN  CheckHits(hits[i][a], HitCount(hits, i), XYZSensor(s).height, e, 0)

\* the outcome of the two-phase trace: the visibility mask, and the error of
\* the debug build when an append or a read leaves the capacity of a list
TwoPhaseTrace(phase) ==
    LET hits == Hits(phase)
        rays == (0..(XYZSensorCount - 1)) \X (0..(NAzimuths - 1)) \X (0..(NElevations - 1))
    IN  [ err |-> IF \/ \E i \in DOMAIN hits : \E a \in DOMAIN hits[i] :
                           Len(hits[i][a]) > HitCapacity
                     \/ \E v \in rays : XYZTrace(hits, v[1], v[2], v[3]).last >= HitCapacity
                  THEN "out_of_bound" ELSE "",
          views |-> {v \in rays : XYZTrace(hits, v[1], v[2], v[3]).found = "clear"} ]

\* C13 (as stated): each two-phase trace ends without error with the
\* visibility mask (and so the rad tallies) of xyz_trace_unified.
C13_TwoPhaseMatchesUnified ==
    TraceComplete =>
        \A phase \in {"xy_trace", "xy_trace_divergent"} :
            TwoPhaseTrace(phase) = [err |-> "", views |-> xyz_views]

----------------------------------------------------------------------------

\* the cells add_edges_to_tree activates for edge j
EdgeCells(j) ==
    LET w == EdgeWrites(edges[j], cfg.nan_cast) IN {w[k] : k \in 1..Len(w)}

\* the sign of the turn from p -> q to p -> r
Side(p, q, r) ==
    LET c == (q[1] - p[1]) * (r[2] - p[2]) - (q[2] - p[2]) * (r[1] - p[1])
    IN  IF c > 0 THEN 1 ELSE IF c < 0 THEN -1 ELSE 0

\* the segments p-q and a-b cross in an inner point of both
Crosses(p, q, a, b) ==
    /\ Side(p, q, a) * Side(p, q, b) < 0
    /\ Side(a, b, p) * Side(a, b, q) < 0

\* the point at distance d from XY sensor i in direction psi
RayPoint(i, psi, d) ==
    <<XYSensorLoc(i)[1] + FMul(d, Cos(psi)), XYSensorLoc(i)[2] + FMul(d, Sin(psi))>>

\* the ray of XY sensor i in direction psi crosses edge j within
\* max_ray_length, the sensor lying outside the footprint of that edge
CrossesWall(i, psi, j) ==
    /\ ~Inside2(gdf.geom[edges[j].building_id + 1],
                2 * XYSensorLoc(i)[1], 2 * XYSensorLoc(i)[2])
    /\ Crosses(XYSensorLoc(i), RayPoint(i, psi, cfg.max_ray_length),
               edges[j].start, edges[j].end)

\* some sample of the ray lies in a cell activated by edge j
SampledIn(i, psi, j) ==
    \E k \in 0..NRaySteps :
        LET loc == RayPoint(i, psi, Distance(k))
        IN  /\ InGrid(loc) /\ Distance(k) < cfg.max_ray_length
            /\ <<FloorM(loc[1]), FloorM(loc[2])>> \in EdgeCells(j)

\* the directions of the rays of XY sensor i
RayAngles(i) ==
    {a * AzimuthInc(cfg.n_azimuths) + edges[ParentEdge(i)].az_start_angle :
        a \in 0..(NAzimuths - 1)}

\* the cells add_edges_to_tree activates for the footprint of edge j
FootprintCells(j) ==
    UNION {EdgeCells(k) : k \in {k \in 1..Len(edges) :
                                   edges[k].building_id = edges[j].building_id}}

\* some sample of the ray lies in a cell activated by the footprint of edge j
SampledInFootprint(i, psi, j) ==
    \E k \in 0..NRaySteps :
        LET loc == RayPoint(i, psi, Distance(k))
        IN  /\ InGrid(loc) /\ Distance(k) < cfg.max_ray_length
            /\ <<FloorM(loc[1]), FloorM(loc[2])>> \in FootprintCells(j)

\* a 1 m x 4 m slab turned by 30 degrees, clockwise ring
Slab == <<<<0, 0>>, <<-500, 866>>, <<2964, 2866>>, <<3464, 2000>>>>

\* a 2 m x 4 m bar turned by 30 degrees, clockwise ring
Bar == <<<<0, 0>>, <<-1000, 1732>>, <<2464, 3732>>, <<3464, 2000>>>>

Neighbours == {TurnedCW, Turn(TurnedCW), DiamondCW, Slab, Turn(Slab), Turn(Turn(Slab)), Bar}

Offsets == {<<7000, 3000>>, <<8200, 500>>, <<7500, -3300>>, <<-9100, 1250>>,
            <<-8000, -4700>>, <<600, 9300>>, <<-1300, -9800>>}

\* scenes of two footprints: the turned square and a neighbour beside it
InitRaster ==
    /\ \E n \in {4, 12}, len \in {MaxRayShort, MaxRayLong} :
           cfg = [BaseCfg EXCEPT !.gis = "pair", !.n_azimuths = n,
                                 !.max_ray_length = len * Scale]
    /\ sky = TracerSky(cfg.mfactor, cfg.n_azimuths, cfg.pattern)
    /\ \E nb \in Neighbours, d \in Offsets :
           gdf = Gis(<<TurnedCW, Translate(nb, d[1], d[2])>>, <<2000, 6000>>)
    /\ pc = "new"
    /\ err = ""
    /\ dims = [width |-> 0, length |-> 0, depth |-> 0]
    /\ buildings = << >> /\ edges = << >> /\ nodes = << >>
    /\ rasterRuns = 0
    /\ xyz_views = {}
    /\ rad = << >>
    /\ ray = NoRay
    /\ time_series = << >>
    /\ results = "none"
    /\ par = << >>

NextRaster == Construct \/ AddEdgesToTree

SpecRaster == InitRaster /\ [][NextRaster]_vars

\* C14 (as stated): every ray of every sensor that crosses a wall within
\* max_ray_length, from outside the wall's footprint, has a sample point in
\* a cell activated by that wall.
C14_NoLeakThroughWall ==
    pc = "rasterized" =>
        \A i \in 0..(XYSensorCount - 1) : \A psi \in RayAngles(i) :
            \A j \in 1..Len(edges) :
                CrossesWall(i, psi, j) => SampledIn(i, psi, j)

\* C14 (footprint level): such a ray has a sample point in a cell activated
\* by some edge of the crossed wall's footprint, the wall itself or one of
\* its neighbours.
C14_NoLeakThroughFootprint ==
    pc = "rasterized" =>
        \A i \in 0..(XYSensorCount - 1) : \A psi \in RayAngles(i) :
            \A j \in 1..Len(edges) :
                CrossesWall(i, psi, j) => SampledInFootprint(i, psi, j)


\* the grid lines x (walk "x") or y (walk "y") an edge crosses
Crossings(e, walk) ==
    IF walk = "x"
    THEN CeilM(Min2(e.start[1], e.end[1]))..FloorM(Max2(e.start[1], e.end[1]))
    ELSE CeilM(Min2(e.start[2], e.end[2]))..FloorM(Max2(e.start[2], e.end[2]))

\* the cells updated at one crossing beyond the two on either side of the
\* grid line
FurtherCells(e, walk, t, nan_cast) ==
    LET w == IF walk = "x" THEN XCells(e, t, nan_cast) ELSE YCells(e, t, nan_cast)
    IN  {w[k] : k \in 3..Len(w)} \ {w[1], w[2]}

\* cell c lies beyond the pair at grid line t on the side the normal points to
OnNormalSide(e, walk, t, c) ==
    LET ax == IF walk = "x" THEN 1 ELSE 2
    IN  IF e.normal[ax] > 0 THEN c[ax] = t + 1
        ELSE IF e.normal[ax] < 0 THEN c[ax] = t - 2
        ELSE FALSE

\* the stored normal of edge j points out of its footprint: the point 0.1 m
\* from the middle of the edge along the normal is not inside the polygon
NormalIsOutward(j) ==
    LET e == edges[j]
    IN  ~Inside2(gdf.geom[e.building_id + 1],
                 e.start[1] + e.end[1] + RDiv(e.normal[1], 5),
                 e.start[2] + e.end[2] + RDiv(e.normal[2], 5))

\* cell c lies beyond the pair at grid line t on the outer side of edge j
OnOutwardSide(j, walk, t, c) ==
    LET ax == IF walk = "x" THEN 1 ELSE 2
        n  == IF NormalIsOutward(j) THEN edges[j].normal[ax] ELSE -edges[j].normal[ax]
    IN  IF n > 0 THEN c[ax] = t + 1
        ELSE IF n < 0 THEN c[ax] = t - 2
        ELSE FALSE

\* C15 (as stated): every edge that is not axis-aligned gets, in one of the
\* two walks and at each of its crossings there, exactly one further cell
\* beyond the two at the grid line, and that cell lies on the outer side of
\* the wall, whichever sector the normal angle falls in.
C15_ThickenedOutward ==
    pc = "rasterized" =>
        \A j \in 1..Len(edges) :
            (edges[j].slope.kind = "fin" /\ edges[j].slope.val # 0) =>
                \E walk \in {"x", "y"} :
                    /\ Crossings(edges[j], walk) # {}
                    /\ \A t \in Crossings(edges[j], walk) :
                           LET f == FurtherCells(edges[j], walk, t, cfg.nan_cast)
                           IN  /\ Cardinality(f) = 1
                               /\ \A c \in f : OnOutwardSide(j, walk, t, c)

\* C15 (what the code does): an edge whose normal angle is below zero gets
\* no further cell at any crossing, and every further cell of any other
\* edge lies on the side opposite to its normal.
C15_ThickenedOppositeOrNotAtAll ==
    pc = "rasterized" =>
        \A j \in 1..Len(edges) :
            (edges[j].slope.kind = "fin" /\ edges[j].slope.val # 0) =>
                \A walk \in {"x", "y"} : \A t \in Crossings(edges[j], walk) :
                    LET f == FurtherCells(edges[j], walk, t, cfg.nan_cast)
                    IN  /\ edges[j].normal_theta < 0 => f = {}
                        /\ \A c \in f : ~OnNormalSide(edges[j], walk, t, c)


\* the walk of the current ray is about to end without an obstruction
Escaping ==
    /\ pc = "tracing" /\ ray.active /\ ray.hit_found = 0
    /\ ~InDomain(RayOf(ray.ix).s, RayOf(ray.ix).a, ray.ray_step_ix)

\* C16 (as stated): a ray escapes only when its next sample lies outside
\* the closed domain [0, width] x [0, length] or when the distance walked
\* strictly exceeds max_ray_length, so a sample at distance exactly
\* max_ray_length inside the domain is still tested.
C16_EscapesOnlyBeyondRange ==
    Escaping =>
        LET q == RayOf(ray.ix)
            next_loc == NextLoc(q.s, q.a, ray.ray_step_ix)
        IN  \/ next_loc[1] < 0 \/ next_loc[2] < 0
            \/ next_loc[1] > dims.width \/ next_loc[2] > dims.length
            \/ Distance(ray.ray_step_ix) > cfg.max_ray_length

\* C16 (what the code does): a ray escapes exactly when its next sample is
\* not strictly inside the domain or the distance has reached max_ray_length.
C16_EscapesAtRange ==
    Escaping =>
        LET q == RayOf(ray.ix)
            next_loc == NextLoc(q.s, q.a, ray.ray_step_ix)
        IN  \/ next_loc[1] <= 0 \/ next_loc[2] <= 0
            \/ next_loc[1] >= dims.width \/ next_loc[2] >= dims.length
            \/ Distance(ray.ray_step_ix) >= cfg.max_ray_length


\* the value trace_xyz_ray returns for the walk of the current ray
ReturnValue == IF ray.hit_found = 0 THEN -1 ELSE Distance(ray.ray_step_ix)

\* the walk of the current ray has ended
Terminal ==
    /\ pc = "tracing" /\ ray.active
    /\ ~(InDomain(RayOf(ray.ix).s, RayOf(ray.ix).a, ray.ray_step_ix)
           /\ ray.hit_found # 1)

\* the number of multiples of ray_step_size below max_ray_length
MaxIterations == (cfg.max_ray_length + cfg.ray_step_size - 1) \div cfg.ray_step_size

\* what holds of a walk apart from the number of its iterations: hit_found
\* is 0 or 1, an ended walk is followed by the next ray only (no further
\* cell is sampled), a step of a walk raises the step index by one and may
\* only raise hit_found, and the return value of an ended walk is negative
\* exactly when no obstruction was found
WalkStates ==
    /\ [](ray.hit_found \in {0, 1})
    /\ [][Terminal => (ray'.ix = ray.ix + 1 /\ ray'.ray_step_ix = 0
                         /\ ray'.hit_found = 0)]_vars
    /\ [][(pc = "tracing" /\ ray.active /\ ~Terminal) =>
              /\ ray'.ix = ray.ix
              /\ ray'.ray_step_ix = ray.ray_step_ix + 1
              /\ ray'.hit_found >= ray.hit_found]_vars
    /\ [](Terminal => (ReturnValue < 0 <=> ray.hit_found = 0))

\* C17 (amended): every ray walk ends after at most ceil(max_ray_length /
\* ray_step_size) iterations, which is n_ray_steps when ray_step_size
\* divides max_ray_length and n_ray_steps + 1 otherwise; it goes from its
\* start through steps to exactly one of obstructed and escaped, an ended
\* walk samples no further cell, and the return value is negative only for
\* an escaped ray.
C17_WalkEndsWithinRange ==
    /\ [](ray.ray_step_ix <= MaxIterations)
    /\ WalkStates

\* a walk that found an obstruction in the iteration after the n_ray_steps-th
C17_Witness ==
    /\ Terminal
    /\ ray.hit_found = 1
    /\ ray.ray_step_ix = MaxIterations
    /\ ray.ray_step_ix > NRaySteps

\* C17 (as stated): every ray walk ends after at most n_ray_steps
\* iterations, with the same walk states.
C17_WalkEndsWithinNRaySteps ==
    /\ [](ray.ray_step_ix <= NRaySteps)
    /\ WalkStates


\* the length of edge j
EdgeLength(j) ==
    Norm(edges[j].end[1] - edges[j].start[1], edges[j].end[2] - edges[j].start[2])

\* floor((L - 2 * sensor_inset) / sensor_spacing) + 1
SpacedCount(len) ==
    ((len - 2 * cfg.sensor_inset) * cfg.spacing_den) \div cfg.spacing_num + 1

\* C18 (as stated): the sensor count of every edge of length L is
\* floor((L - 2 * sensor_inset) / sensor_spacing) + 1 whenever that value is
\* at least 1 and 0 otherwise, so an edge with
\* 0 <= (L - 2 * sensor_inset) / sensor_spacing < 1 has exactly one sensor.
C18_SensorCountFromSpacing ==
    pc = "rasterized" =>
        \A j \in 1..Len(edges) :
            edges[j].sensor_ct = IF SpacedCount(EdgeLength(j)) >= 1
                                 THEN SpacedCount(EdgeLength(j)) ELSE 0

\* C18 (what the code does): the count is that value only when it is at
\* least 2 and 0 otherwise, so no edge has exactly one sensor.
C18_NeverOneSensor ==
    pc = "rasterized" =>
        \A j \in 1..Len(edges) :
            /\ edges[j].sensor_ct # 1
            /\ edges[j].sensor_ct = IF SpacedCount(EdgeLength(j)) >= 2
                                    THEN SpacedCount(EdgeLength(j)) ELSE 0


\* the xyz_sensor_ct init_xy_sensors stores for every XY sensor of edge j
XYZSensorCt(j) == edges[j].n_floors

\* the height of the building edge j belongs to
BuildingHeight(j) == gdf.height[edges[j].building_id + 1]

\* the edges that carry an XY sensor
SensedEdges == {j \in 1..Len(edges) : edges[j].sensor_ct > 0}

\* C19 (as stated): every XY sensor has as many XYZ sensors as its building
\* has floors, ceil(building_height / f2f_height), also for a building of
\* more than 127 floors.
C19_OneXYZSensorPerFloor ==
    pc = "rasterized" =>
        \A j \in SensedEdges :
            XYZSensorCt(j) = NFloors(BuildingHeight(j), cfg.f2f_height)

\* C19 (what the code does): the count is the floor count reduced to the
\* range of an 8-bit signed integer, -128..127.
C19_FloorCountInEightBits ==
    pc = "rasterized" =>
        \A j \in SensedEdges :
            /\ XYZSensorCt(j) \in -128..127
            /\ (XYZSensorCt(j) - NFloors(BuildingHeight(j), cfg.f2f_height)) % 256 = 0


\* the cells the x-threshold walk of edge j updates
XWalkCells(j) ==
    LET e == edges[j]
        w == XWalk(e, CeilM(Min2(e.start[1], e.end[1])),
                   FloorM(Max2(e.start[1], e.end[1])), cfg.nan_cast)
    IN  {w[k] : k \in 1..Len(w)}

\* the cells on either side of the vertical line x = x0 of edge j, at the
\* grid lines y it crosses
SpanningCells(j) ==
    LET e == edges[j]
    IN  {<<FloorM(e.start[1]), y - 1>> : y \in Crossings(e, "y")}
        \cup {<<FloorM(e.start[1]), y>> : y \in Crossings(e, "y")}

\* C20 (as stated): for a vertical wall (slopevec.x = 0) add_edges_to_tree
\* does the y-threshold walk only: the x-threshold walk updates no cell,
\* and the two cells spanning the line are updated at each grid line y the
\* wall crosses, also when the wall's x coordinate is an integer.
C20_VerticalWallYWalkOnly ==
    pc = "rasterized" =>
        \A j \in 1..Len(edges) :
            edges[j].slopevec[1] = 0 =>
                /\ XWalkCells(j) = {}
                /\ SpanningCells(j) \subseteq EdgeCells(j)

\* C20 (what the code does): the x-threshold walk of a vertical wall is
\* empty exactly when the wall's x coordinate is not an integer.
C20_XWalkAtIntegerX ==
    pc = "rasterized" =>
        \A j \in 1..Len(edges) :
            edges[j].slopevec[1] = 0 =>
                /\ XWalkCells(j) = {} <=> edges[j].start[1] % Scale # 0
                /\ SpanningCells(j) \subseteq EdgeCells(j)


----------------------------------------------------------------------------
(* the kernels as parallel loops: a pool of workers, each taking the next
   iteration of the loop and running it one atomic operation at a time *)

\* iterations in flight at once
Workers == 2

\* a kernel that has just been launched
Launched == [next |-> 0, run |-> << >>]

\* the iterations that can take a step when the loop has n iterations: those
\* in flight and, when a worker is free, the next one
Runnable(n) ==
    DOMAIN par.run
        \cup (IF par.next < n /\ Cardinality(DOMAIN par.run) < Workers
              THEN {par.next} ELSE {})

\* steps iteration id has done
StepsDone(id) == IF id \in DOMAIN par.run THEN par.run[id] ELSE 0

\* par after iteration id took a step, of the n_ops it has in all
Stepped(id, n_ops) ==
    LET k == StepsDone(id) + 1
        others == [j \in DOMAIN par.run \ {id} |-> par.run[j]]
    IN  [next |-> IF id = par.next THEN par.next + 1 ELSE par.next,
         run  |-> IF k >= n_ops THEN others ELSE others @@ (id :> k)]

\* every iteration of a loop of n iterations has ended
LoopOver(n) == par # << >> /\ par.next >= n /\ DOMAIN par.run = {}

\* two touching footprints of different heights, one wall with sensors,
\* a sky of two azimuths, short rays
ParConfigs ==
    { [BaseCfg EXCEPT !.gis = "wedge", !.n_azimuths = 2,
                      !.max_ray_length = MaxRayShort * Scale] }

InitPar ==
    /\ cfg \in ParConfigs
    /\ sky = TracerSky(cfg.mfactor, cfg.n_azimuths, cfg.pattern)
    /\ gdf = GisTables[cfg.gis]
    /\ pc = "new"
    /\ err = ""
    /\ dims = [width |-> 0, length |-> 0, depth |-> 0]
    /\ buildings = << >> /\ edges = << >> /\ nodes = << >>
    /\ rasterRuns = 0
    /\ xyz_views = {}
    /\ rad = << >>
    /\ ray = NoRay
    /\ time_series = << >>
    /\ results = "none"
    /\ par = << >>

\* ray_trace launches the kernel add_edges_to_tree
LaunchAddEdgesToTree ==
    /\ pc = "constructed"
    /\ pc' = "rasterizing"
    /\ par' = Launched
    /\ UNCHANGED <<cfg, sky, gdf, err, dims, buildings, edges, nodes, rasterRuns,
                   xyz_views, rad, ray, time_series, results>>

\* one ti.atomic_max of the thread of one edge (edge_ix = id, 0-based)
EdgeThreadStep ==
    /\ pc = "rasterizing"
    /\ \E id \in Runnable(Len(edges)) :
           LET w == EdgeWrites(edges[id + 1], cfg.nan_cast)
               cell == w[StepsDone(id) + 1]
               old == IF cell \in DOMAIN nodes THEN nodes[cell] ELSE 0
               h == AtomicMax(old, edges[id + 1].height)
           IN  IF Len(w) = 0
               THEN /\ par' = Stepped(id, 0)
                    /\ UNCHANGED <<nodes, pc, err>>
               ELSE IF InField(cell, dims.depth)
               THEN /\ nodes' = [c \in DOMAIN nodes \cup {cell} |->
                                    IF c = cell THEN h ELSE nodes[c]]
                    /\ par' = Stepped(id, Len(w))
                    /\ UNCHANGED <<pc, err>>
               ELSE /\ pc' = "error" /\ err' = "out_of_bound"
                    /\ UNCHANGED <<nodes, par>>
    /\ UNCHANGED <<cfg, sky, gdf, dims, buildings, edges, rasterRuns,
                   xyz_views, rad, ray, time_series, results>>

\* the kernel add_edges_to_tree returns
EndAddEdgesToTree ==
    /\ pc = "rasterizing" /\ LoopOver(Len(edges))
    /\ pc' = "rasterized"
    /\ rasterRuns' = 1
    /\ par' = << >>
    /\ UNCHANGED <<cfg, sky, gdf, err, dims, buildings, edges, nodes,
                   xyz_views, rad, ray, time_series, results>>


\* x += v on a field in a parallel loop: one atomic read-modify-write
AddInPlace(old, v) == old + v

\* trace_xyz_ray from step k on: TRUE when the walk ends without an
\* obstruction (the function returns -1)
RECURSIVE RayEscapes(_, _, _, _)
RayEscapes(s, a, e, k) ==
    IF ~InDomain(s, a, k) THEN TRUE
    ELSE IF Obstructs(nodes, s, a, e, k) THEN FALSE
    ELSE RayEscapes(s, a, e, k + 1)

\* ray_trace sets the sensors up and launches the kernel xyz_trace_unified
LaunchXyzTraceUnified ==
    /\ pc = "rasterized"
    /\ IF NegativeRepeats
       THEN pc' = "error" /\ err' = "negative_repeats" /\ par' = par
       ELSE IF RayCountOk
       THEN pc' = "par_tracing" /\ err' = err /\ par' = Launched
       ELSE pc' = "error" /\ err' = "ray_count" /\ par' = par
    /\ UNCHANGED <<cfg, sky, gdf, dims, buildings, edges, nodes, rasterRuns,
                   xyz_views, rad, ray, time_series, results>>

\* the operations on shared fields of the thread of ray id: none for an
\* obstructed ray, rad += 1 and then the mask bit for an escaped one
RayThreadOps(id) ==
    IF RayEscapes(RayOf(id).s, RayOf(id).a, RayOf(id).e, 0) THEN 2 ELSE 0

\* the cells in which the walk of a ray of sensor s at azimuth a samples
SampledCells(s, a) ==
    {<<FloorM(NextLoc(s, a, k)[1]), FloorM(NextLoc(s, a, k)[2])>> :
        k \in {j \in 0..MaxRayLong : InDomain(s, a, j)}}

\* variant: the walk reads the height through an access that activates the
\* sampled cell
TreeWithSampledCells(g, s, a) ==
    [c \in DOMAIN g \cup SampledCells(s, a) |->
        IF c \in DOMAIN g THEN g[c] ELSE 0]

\* the tree after the walk of one ray: trace_xyz_ray tests the cell with
\* ti.is_active and reads the height of an active cell only; it writes nothing
TreeAfterWalk(g, s, a) == g

\* one operation of the thread of one (sensor_ix, az_ix, el_ix)
RayThreadStep ==
    /\ pc = "par_tracing"
    /\ \E id \in Runnable(RayCount) :
           LET q == RayOf(id)
               n_ops == RayThreadOps(id)
           IN  /\ par' = Stepped(id, n_ops)
               /\ nodes' = IF StepsDone(id) = 0
                           THEN TreeAfterWalk(nodes, q.s, q.a) ELSE nodes
               /\ IF n_ops = 0 THEN UNCHANGED <<rad, xyz_views>>
                  ELSE IF StepsDone(id) = 0
                  THEN /\ rad' = [s \in DOMAIN rad \cup {q.s} |->
                                     IF s = q.s THEN AddInPlace(RadOf(s), 1)
                                     ELSE rad[s]]
                       /\ UNCHANGED xyz_views
                  ELSE /\ xyz_views' = xyz_views \cup {<<q.s, q.a, q.e>>}
                       /\ UNCHANGED rad
    /\ UNCHANGED <<cfg, sky, gdf, pc, err, dims, buildings, edges,
                   rasterRuns, ray, time_series, results>>

\* ti.sync() after xyz_trace_unified
EndXyzTraceUnified ==
    /\ pc = "par_tracing" /\ LoopOver(RayCount)
    /\ pc' = "traced"
    /\ par' = << >>
    /\ UNCHANGED <<cfg, sky, gdf, err, dims, buildings, edges, nodes, rasterRuns,
                   xyz_views, rad, ray, time_series, results>>

\* ray_trace creates xyz_sensor_timesteps (zeros) and launches timestep_sky
LaunchTimestepSky ==
    /\ pc = "traced"
    /\ time_series' = [s \in 0..(XYZSensorCount - 1) |-> [t \in 0..(NHours - 1) |-> 0]]
    /\ pc' = "par_timestepping"
    /\ par' = Launched
    /\ UNCHANGED <<cfg, sky, gdf, err, dims, buildings, edges, nodes, rasterRuns,
                   xyz_views, rad, ray, results>>

\* variant: a loop over every entry of xyz_views, set or not
EveryEntryOps(id) == NHours

\* the struct-for of timestep_sky runs for the active entries of xyz_views
\* only: the += of an active entry, none for the others
SkyThreadOps(id) ==
    IF <<RayOf(id).s, RayOf(id).a, RayOf(id).e>> \in xyz_views THEN NHours ELSE 0

\* one += of the thread of one entry of xyz_views, for one timestep
SkyThreadStep ==
    /\ pc = "par_timestepping"
    /\ \E id \in Runnable(RayCount) :
           LET q == RayOf(id)
               t == StepsDone(id)
               n_ops == SkyThreadOps(id)
           IN  /\ par' = Stepped(id, n_ops)
               /\ IF n_ops = 0 THEN UNCHANGED time_series
                  ELSE time_series' =
                           [time_series EXCEPT ![q.s][t] =
                               AddInPlace(@, Contribution(q.s, q.a, q.e, t))]
    /\ UNCHANGED <<cfg, sky, gdf, pc, err, dims, buildings, edges, nodes,
                   rasterRuns, xyz_views, rad, ray, results>>

\* timestep_sky returns
EndTimestepSky ==
    /\ pc = "par_timestepping" /\ LoopOver(RayCount)
    /\ pc' = "timestepped"
    /\ par' = << >>
    /\ UNCHANGED <<cfg, sky, gdf, err, dims, buildings, edges, nodes, rasterRuns,
                   xyz_views, rad, ray, time_series, results>>

NextPar ==
    \/ Construct
    \/ LaunchAddEdgesToTree \/ EdgeThreadStep \/ EndAddEdgesToTree
    \/ LaunchXyzTraceUnified \/ RayThreadStep \/ EndXyzTraceUnified
    \/ LaunchTimestepSky \/ SkyThreadStep \/ EndTimestepSky
    \/ AssembleResultsDf

SpecPar == InitPar /\ [][NextPar]_vars

\* C21: whatever the interleaving of the threads of the edges, the kernel
\* add_edges_to_tree ends with the grid that processing the edges one after
\* another in index order gives: the same active cells, the same heights.
C21_AnyInterleavingSameGrid ==
    pc = "rasterized" => nodes = Rasterize(<< >>, edges, cfg.nan_cast)

\* the kernel ended with a cell that the threads of edges of different
\* heights have updated
C21_Witness ==
    /\ pc = "rasterized"
    /\ \E cell \in DOMAIN nodes :
           \E i \in Touching(cell), j \in Touching(cell) :
               edges[i].height # edges[j].height


\* the rays of sensor s that ended without an obstruction
EscapedOf(s) ==
    {<<s, a, e>> : a \in 0..(NAzimuths - 1), e \in 0..(NElevations - 1)}
        \cap {<<s, RayOf(id).a, RayOf(id).e>> :
                 id \in {r \in 0..(RayCount - 1) :
                            RayOf(r).s = s
                            /\ RayEscapes(s, RayOf(r).a, RayOf(r).e, 0)}}

\* C22: after timestep_sky, whatever the interleaving of the threads, every
\* time_series[s, t] is the sum over the set visibility bits (s, a, e) of
\* normal_irradiance[e, a_sky, t] * mu(a, e): no update is lost, and the set
\* bits are the escaped rays, so an obstructed ray adds nothing.
C22_NoUpdateLost ==
    pc = "timestepped" =>
        \A s \in 0..(XYZSensorCount - 1) :
            /\ {v \in xyz_views : v[1] = s} = EscapedOf(s)
            /\ \A t \in 0..(NHours - 1) :
                   time_series[s][t] = Accumulate(EscapedOf(s), s, t)

\* timestep_sky ended for a sensor with several escaped rays that add to
\* the same hour, beside a sensor whose obstructed rays would have added too
C22_Witness ==
    /\ pc = "timestepped"
    /\ \E s \in 0..(XYZSensorCount - 1), t \in 0..(NHours - 1) :
           Cardinality({v \in xyz_views : v[1] = s /\ Contribution(s, v[2], v[3], t) > 0}) >= 2
    /\ \E s \in 0..(XYZSensorCount - 1), t \in 0..(NHours - 1) :
           \E a \in 0..(NAzimuths - 1), e \in 0..(NElevations - 1) :
               <<s, a, e>> \notin xyz_views /\ Contribution(s, a, e, t) > 0


\* the visibility bits set for sensor s
BitsOf(s) == {v \in xyz_views : v[1] = s}

\* C23: after the trace stage, whatever the interleaving of the threads of
\* the rays, rad of every XYZ sensor is the number of its visibility bits,
\* which lies between 0 and n_azimuths * n_elevations.
C23_RadCountsBits ==
    pc \in {"traced", "par_timestepping", "timestepped", "done"} =>
        \A s \in 0..(XYZSensorCount - 1) :
            /\ RadOf(s) = Cardinality(BitsOf(s))
            /\ RadOf(s) >= 0 /\ RadOf(s) <= NAzimuths * NElevations

\* the trace ended with a sensor of several set bits and a sensor of none
C23_Witness ==
    /\ pc = "traced"
    /\ \E s \in 0..(XYZSensorCount - 1) : RadOf(s) >= 2 /\ Cardinality(BitsOf(s)) >= 2
    /\ \E s \in 0..(XYZSensorCount - 1) : RadOf(s) = 0 /\ BitsOf(s) = {}


\* C24: the height grid is written by the rasterization only and the
\* visibility mask by the trace only: no step of the trace kernel changes a
\* cell or a height, no step of timestep_sky changes the grid or a bit, and
\* nothing after the rasterization (after the trace) changes the grid (the
\* mask).
C24_OneWriterPerField ==
    [][ /\ pc \in {"rasterized", "par_tracing", "traced", "par_timestepping",
                   "timestepped"} => nodes' = nodes
        /\ pc \in {"traced", "par_timestepping", "timestepped"} =>
               xyz_views' = xyz_views
        /\ nodes' # nodes => pc = "rasterizing"
        /\ xyz_views' # xyz_views => pc = "par_tracing" ]_vars

\* both kernels have run over a grid with active cells: bits are set, energy
\* has been accumulated and the grid is still the rasterized one
C24_Witness ==
    /\ pc = "timestepped"
    /\ DOMAIN nodes # {} /\ nodes = Rasterize(<< >>, edges, cfg.nan_cast)
    /\ xyz_views # {}
    /\ \E s \in 0..(XYZSensorCount - 1), t \in 0..(NHours - 1) : time_series[s][t] > 0


----------------------------------------------------------------------------
(* the construction with update_edge_properties as a parallel loop, and the
   index arrays of the sensor layout *)

\* the computed fields of the edges before update_edge_properties has run:
\* a field starts at zero
FieldsBeforeKernel(es) ==
    [i \in DOMAIN es |->
        [es[i] EXCEPT !.slope = 0, !.normal_theta = 0, !.orientation = 0,
                      !.az_start_angle = 0]]

\* Tracer(sky, gdf, ...) up to the launch of update_edge_properties
ConstructPar ==
    /\ pc = "new"
    /\ LET error == InitError(cfg, gdf, sky)
           padding == 5 * cfg.node_width * Scale
           after == GdfAfterInit(cfg, gdf, error)
       IN  /\ gdf' = after
           /\ err' = error
           /\ IF error # ""
              THEN /\ pc' = "error"
                   /\ UNCHANGED <<dims, buildings, edges, par>>
              ELSE LET b == TotalBounds(after.geom)
                       es == ExtractFlatEdgeList(after.geom, after.height, cfg,
                                                 sky.n_azimuths)
                   IN  /\ pc' = "updating_edges"
                       /\ dims' = [ width |-> b.x_high + padding,
                                    length |-> b.y_high + padding,
                                    depth |-> Depth(after.geom, padding, cfg.node_width) ]
                       /\ edges' = FieldsBeforeKernel(es)
                       /\ buildings' =
                              [k \in 1..Len(after.height) |->
                                  [InitBuildings(after.height, es)[k] EXCEPT
                                      !.edge_ct = 0, !.edge_start_ix = 0,
                                      !.edge_end_ix = 0]]
                       /\ par' = Launched
    /\ UNCHANGED <<cfg, sky, nodes, rasterRuns, xyz_views, rad, ray,
                   time_series, results>>

\* one step of the thread of one edge of update_edge_properties: the
\* writes to its own edge, then the edge_ct += 1 of its building
EdgePropertyStep ==
    /\ pc = "updating_edges"
    /\ \E id \in Runnable(Len(edges)) :
           /\ par' = Stepped(id, 2)
           /\ IF StepsDone(id) = 0
              THEN LET p == EdgeProperties(edges[id + 1], sky.n_azimuths)
                   IN  /\ edges' = [edges EXCEPT ![id + 1] =
                              [@ EXCEPT !.slope = p.slope,
                                        !.normal_theta = p.normal_theta,
                                        !.orientation = p.orientation,
                                        !.az_start_angle = p.az_start_angle]]
                       /\ UNCHANGED buildings
              ELSE /\ buildings' =
                          [buildings EXCEPT ![edges[id + 1].building_id + 1].edge_ct =
                              AddInPlace(@, 1)]
                   /\ UNCHANGED edges
    /\ UNCHANGED <<cfg, sky, gdf, pc, err, dims, nodes, rasterRuns, xyz_views,
                   rad, ray, time_series, results>>

\* the kernel has returned: the edge ranges of the buildings from the
\* cumulative sum of edge_ct
EndUpdateEdgeProperties ==
    /\ pc = "updating_edges" /\ LoopOver(Len(edges))
    /\ LET edges_per_bldg == [k \in DOMAIN buildings |-> buildings[k].edge_ct]
       IN  buildings' =
               [k \in DOMAIN buildings |->
                   [buildings[k] EXCEPT
                       !.edge_end_ix = SumTo(edges_per_bldg, k),
                       !.edge_start_ix = IF k = 1 THEN 0
                                         ELSE SumTo(edges_per_bldg, k - 1)]]
    /\ pc' = "constructed"
    /\ par' = << >>
    /\ UNCHANGED <<cfg, sky, gdf, err, dims, edges, nodes, rasterRuns, xyz_views,
                   rad, ray, time_series, results>>

\* scenes of one and two buildings, of zero, one and two floors and of more
\* floors than the field holds, and a sky the constructor rejects
LayoutConfigs ==
    { [BaseCfg EXCEPT !.gis = g] :
        g \in {"turned", "flat", "pair", "abut", "wedge", "tower", "block"} }
    \cup { [BaseCfg EXCEPT !.gis = "pair", !.n_azimuths = 3] }

InitLayout ==
    /\ cfg \in LayoutConfigs
    /\ sky = TracerSky(cfg.mfactor, cfg.n_azimuths, cfg.pattern)
    /\ gdf = GisTables[cfg.gis]
    /\ pc = "new"
    /\ err = ""
    /\ dims = [width |-> 0, length |-> 0, depth |-> 0]
    /\ buildings = << >> /\ edges = << >> /\ nodes = << >>
    /\ rasterRuns = 0
    /\ xyz_views = {}
    /\ rad = << >>
    /\ ray = NoRay
    /\ time_series = << >>
    /\ results = "none"
    /\ par = << >>

NextLayout ==
    \/ ConstructPar \/ EdgePropertyStep \/ EndUpdateEdgeProperties
    \/ AddEdgesToTree
    \/ InitSensors

SpecLayout == InitLayout /\ [][NextLayout]_vars

\* variant: every index once, whatever its count
RepeatIndexOnce(counts, i) ==
    [k \in 1..Len(counts) |-> k - 1]

\* np.repeat(np.arange(n), counts) from index i (1-based) on; the values
\* are the 0-based indices
RECURSIVE RepeatIndex(_, _)
RepeatIndex(counts, i) ==
    IF i > Len(counts) THEN << >>
    ELSE [k \in 1..counts[i] |-> i - 1] \o RepeatIndex(counts, i + 1)

\* sensor_parent_ix: the parent edge of every XY sensor
SensorParentIx == RepeatIndex([j \in 1..Len(edges) |-> edges[j].sensor_ct], 1)

\* xyz_cts: init_xy_sensors copies the n_floors of the parent edge
XyzCts == [i \in 1..Len(SensorParentIx) |-> edges[SensorParentIx[i] + 1].n_floors]

\* xyz_starts: the cumulative sum of xyz_cts rolled by one, 0 in front
XyzStarts == [i \in 1..Len(XyzCts) |-> IF i = 1 THEN 0 ELSE SumTo(XyzCts, i - 1)]

\* xy_sensor_parent_ix: the parent XY sensor of every XYZ sensor
XYSensorParentIx == RepeatIndex(XyzCts, 1)

\* floor_ix of XYZ sensor s in init_xyz_sensors
FloorIx(s) == s - XyzStarts[XYSensorParentIx[s + 1] + 1]

\* the indices lo, lo + 1, ..., hi - 1
Range(lo, hi) == lo..(hi - 1)

\* the sensor ranges of the edges partition the XY sensors
EdgeRangesPartition ==
    /\ \A j \in 1..Len(edges) :
           /\ edges[j].sensor_start_ix =
                  (IF j = 1 THEN 0 ELSE edges[j - 1].sensor_end_ix)
           /\ edges[j].sensor_end_ix - edges[j].sensor_start_ix = edges[j].sensor_ct
           /\ edges[j].sensor_ct >= 0
    /\ \A j, k \in 1..Len(edges) :
           j # k => Range(edges[j].sensor_start_ix, edges[j].sensor_end_ix)
                        \cap Range(edges[k].sensor_start_ix, edges[k].sensor_end_ix) = {}
    /\ Len(SensorParentIx) = XYSensorCount
    /\ \A i \in 0..(Len(SensorParentIx) - 1) :
           LET E == edges[SensorParentIx[i + 1] + 1]
           IN  E.sensor_start_ix <= i /\ i < E.sensor_end_ix

\* the ranges of the XY sensors partition the XYZ sensors
XYRangesPartition ==
    /\ \A i \in 1..Len(XyzCts) :
           \A k \in 1..Len(XyzCts) :
               i # k => Range(XyzStarts[i], XyzStarts[i] + XyzCts[i])
                            \cap Range(XyzStarts[k], XyzStarts[k] + XyzCts[k]) = {}
    /\ Len(XYSensorParentIx) = SumTo(XyzCts, Len(XyzCts))
    /\ \A s \in 0..(Len(XYSensorParentIx) - 1) :
           LET i == XYSensorParentIx[s + 1] + 1
           IN  /\ XyzStarts[i] <= s /\ s < XyzStarts[i] + XyzCts[i]
               /\ FloorIx(s) >= 0 /\ FloorIx(s) < XyzCts[i]

\* the edge ranges of the buildings hold exactly their edges
BuildingRangesPartition ==
    \A b \in 1..Len(buildings) :
        LET own == {i \in 0..(Len(edges) - 1) : edges[i + 1].building_id = b - 1}
        IN  /\ Range(buildings[b].edge_start_ix, buildings[b].edge_end_ix) = own
            /\ buildings[b].edge_ct = Cardinality(own)

\* C25: once the Tracer is constructed the sensor ranges of the edges
\* partition the XY sensors, each XY sensor lying in the range of its parent
\* edge, and the edge range of every building holds exactly the edges of that
\* building, edge_ct being their number whatever the interleaving of the
\* increments; once the sensors are laid out the ranges of the XY sensors
\* partition the XYZ sensors and every floor index lies in [0, xyz_sensor_ct).
C25_IndexRangesPartition ==
    /\ pc \in {"constructed", "rasterized", "tracing"} =>
           EdgeRangesPartition /\ BuildingRangesPartition
    /\ pc = "tracing" => XYRangesPartition

\* sensors are laid out over two buildings of different floor counts, with
\* several edges carrying sensors and a column of several XYZ sensors
C25_Witness ==
    /\ pc = "tracing"
    /\ Len(buildings) >= 2
    /\ \E j, k \in 1..Len(edges) :
           /\ edges[j].sensor_ct > 0 /\ edges[k].sensor_ct > 0
           /\ edges[j].building_id # edges[k].building_id
           /\ edges[j].n_floors # edges[k].n_floors
    /\ \E i \in 1..Len(XyzCts) : XyzCts[i] >= 2


\* sky patch k covers the azimuths [k * azimuth_inc, (k + 1) * azimuth_inc)
\* and the angle psi, taken modulo 2 pi, lies among them
PatchContains(k, psi) ==
    LET inc == AzimuthInc(cfg.n_azimuths)
    IN  /\ k \in 0..(sky.n_azimuths - 1)
        /\ k * inc <= psi % TwoPi
        /\ psi % TwoPi < (k + 1) * inc

\* C26: the sky azimuth index timestep_sky computes for a ray lies in
\* [0, n_azimuths of the sky), also for a negative ray azimuth, and is the
\* index of the patch whose interval holds the ray's azimuth modulo 2 pi:
\* for every ray of every sensor and, with az_start_angle computed as
\* update_edge_properties does, for every direction of the normal.
C26_SkyPatchHoldsRay ==
    pc \in {"timestepped", "done"} =>
        /\ \A s \in 0..(XYZSensorCount - 1) : \A a \in 0..(NAzimuths - 1) :
               PatchContains(SkyPatchAzIx(s, a), AzAngle(s, a))
        /\ \A theta \in (1 - Pi)..Pi : \A a \in 0..(NAzimuths - 1) :
               LET psi == a * AzimuthInc(cfg.n_azimuths)
                              + AzStartAngle(theta, cfg.n_azimuths)
               IN  PatchContains(SkyPatchOfAngle(psi), psi)

\* energy has been accumulated through a ray of negative azimuth, which
\* falls in a patch of the upper half of the sky's indices
C26_Witness ==
    /\ pc = "timestepped"
    /\ \E v \in xyz_views :
           /\ AzAngle(v[1], v[2]) < 0
           /\ SkyPatchAzIx(v[1], v[2]) >= NAzimuths
           /\ \E t \in 0..(NHours - 1) : Contribution(v[1], v[2], v[3], t) > 0


\* the angle from the direction of edge j (its normal turned back by a
\* quarter turn) to ray a of a sensor on that edge
AngleOffEdge(j, a) ==
    a * AzimuthInc(cfg.n_azimuths) + edges[j].az_start_angle
        - (edges[j].normal_theta - HalfPi)

\* C27: for every edge and every tracer azimuth index a the ray azimuth
\* a * azimuth_inc + az_start_angle is (a + 1/2) * azimuth_inc past the
\* direction of the edge, strictly between 0 and pi: the ray is not parallel
\* to the edge (the sine of the angle between them is positive) and its
\* component along the stored normal is positive.
C27_RaysOffTheWall ==
    Constructed =>
        \A j \in 1..Len(edges) : \A a \in 0..(NAzimuths - 1) :
            LET d == AngleOffEdge(j, a)
                psi == a * AzimuthInc(cfg.n_azimuths) + edges[j].az_start_angle
            IN  /\ 2 * d = (2 * a + 1) * AzimuthInc(cfg.n_azimuths)
                /\ 0 < d /\ d < Pi
                /\ Sin(d) > 0
                /\ Cos(psi) * edges[j].normal[1] + Sin(psi) * edges[j].normal[2] > 0

\* a ray of the last azimuth of a fan of six, half an increment short of
\* the direction opposite to the edge, is being walked
C27_Witness ==
    /\ pc = "tracing" /\ ray.active /\ ray.ray_step_ix >= 1
    /\ NAzimuths >= 6
    /\ RayOf(ray.ix).a = NAzimuths - 1
    /\ AngleOffEdge(XYZSensor(RayOf(ray.ix).s).parent_edge_id, NAzimuths - 1)
           = Pi - AzimuthInc(cfg.n_azimuths) \div 2


\* C28 (as stated): every XYZ sensor sits within its own floor and not above
\* its building: for floor index f the height f * 1.5 * f2f_height lies
\* between f * f2f_height and (f + 1) * f2f_height and does not exceed the
\* height of the building.
C28_SensorWithinItsFloor ==
    pc = "tracing" =>
        \A s \in 0..(XYZSensorCount - 1) :
            LET f == FloorIx(s)
                h == XYZSensor(s).height
            IN  /\ f * cfg.f2f_height <= h
                /\ h <= (f + 1) * cfg.f2f_height
                /\ h <= BuildingHeight(XYZSensor(s).parent_edge_id)


\* the XYZ sensors above s in its column: same parent XY sensor, larger
\* floor index
Above(s) ==
    {u \in 0..(XYZSensorCount - 1) :
        /\ XYZSensor(u).parent_sensor_id = XYZSensor(s).parent_sensor_id
        /\ XYZSensor(u).floor_ix > XYZSensor(s).floor_ix}

\* C29: visibility is monotone: when the ray (s, a, e) is unobstructed, so
\* is (s, a, e') for every elevation index e' > e and so is the ray (a, e)
\* of every XYZ sensor above s in its column; rad does not decrease with
\* the floor index within a column.
C29_VisibilityMonotone ==
    pc \in {"timestepped", "done"} =>
        /\ \A v \in xyz_views :
               /\ \A e \in (v[3] + 1)..(NElevations - 1) : <<v[1], v[2], e>> \in xyz_views
               /\ \A u \in Above(v[1]) : <<u, v[2], v[3]>> \in xyz_views
        /\ \A s \in 0..(XYZSensorCount - 1) : \A u \in Above(s) : RadOf(s) <= RadOf(u)

\* a ray obstructed at a low elevation and free at a higher one, and a ray
\* obstructed from a lower floor and free from the floor above, which sees
\* more of the sky
C29_Witness ==
    /\ pc = "timestepped"
    /\ \E v \in xyz_views : v[3] > 0 /\ <<v[1], v[2], v[3] - 1>> \notin xyz_views
    /\ \E v \in xyz_views :
           \E s \in 0..(XYZSensorCount - 1) :
               /\ v[1] \in Above(s)
               /\ <<s, v[2], v[3]>> \notin xyz_views
               /\ RadOf(s) < RadOf(v[1])


\* C30 (as stated): constructing a Tracer leaves the caller's table as it
\* was, no column added and no geometry moved, whether the construction
\* succeeds or aborts on one of its checks.
C30_CallerTableUnchanged ==
    pc # "new" => gdf = GisTables[cfg.gis]

============================================================================
